---------------------------- MODULE Spec2Model ----------------------------
(***************************************************************************)
(* WiFiTimeManager: timezone / DST / NTP add-on for WiFiManager (ESP32).   *)
(*                                                                         *)
(* Three specifications share this module:                                 *)
(*   SpecNvs  - the persisted TimeParameters blob: Save(), Restore(),      *)
(*              Reset(), ResetData() and the field setters                 *)
(*              (src/WiFiTimeManager.cpp).                                 *)
(*   SpecSntp - the SNTP based time keeping: GetUtcTimeT(),                *)
(*              UtcSetCallback(), SetMinNtpRateSec()                       *)
(*              (src/WiFiTimeManager.cpp).                                 *)
(*   SpecUdp  - the UDP based GetUtcTime() and process() of the first      *)
(*              implementation (the .cpp listing in src/README.md).        *)
(***************************************************************************)
EXTENDS Integers, Sequences, FiniteSets, TLC

VARIABLES
    \* ---- persisted parameters (SpecNvs) ----
    m_Params,        \* WiFiTimeManager::m_Params, the in-memory TimeParameters
    nvsBlob,         \* value stored under pPrefSavedStateLabel in namespace m_pName
    nvsOther,        \* TRUE when the namespace holds keys other than pPrefSavedStateLabel
    wifiCreds,       \* TRUE when WiFiManager holds saved WiFi credentials
    last,            \* record of the most recent persistence operation
    prev,            \* record of the operation before it
    \* ---- the clocks of the device (SpecSntp, SpecUdp) ----
    millis,          \* millis(): milliseconds since boot, a uint32_t that wraps
    upSec,           \* whole seconds elapsed since boot
    upFrac,          \* milliseconds elapsed within the current second
    ticks,           \* number of clock advances taken so far
    sysOfs,          \* system clock: time() = sysOfs + upSec
    rtcOfs,          \* the user's clock read by the get-callback: rtcOfs + upSec
    \* ---- SNTP based time keeping (SpecSntp) ----
    m_LastUpdateMs,      \* WiFiTimeManager::m_LastUpdateMs
    m_MinNtpRateMs,      \* WiFiTimeManager::m_MinNtpRateMs
    m_UsingNetworkTime,  \* WiFiTimeManager::m_UsingNetworkTime
    m_pUtcGetCallback,   \* TRUE when a user get-callback is installed, FALSE for NULL
    m_pUtcSetCallback,   \* TRUE when a user set-callback is installed, FALSE for NULL
    sntpStarted,         \* TRUE once InitSntpTime() has registered UtcSetCallback
    sLast,               \* record of the most recent time keeping operation
    \* ---- UDP based GetUtcTime() (SpecUdp) ----
    m_MinNtpRateSec,     \* WiFiTimeManager::m_MinNtpRateSec
    lastMs,              \* the function-static lastMs of GetUtcTime()
    lastMsInit,          \* TRUE once that static has been initialised
    hadSync,             \* TRUE once a reply has been accepted
    connected,           \* what IsConnected() returns
    pc,                  \* where GetUtcTime() is: "idle", "drain" or "wait"
    call,                \* record of the GetUtcTime() call in progress
    uLast,               \* record of the most recent completed GetUtcTime() call
    sent,                \* number of NTP requests emitted so far
    inflight,            \* replies on their way to the device
    rxq,                 \* packets received by m_Udp and not yet parsed
    \* ---- Init() and the configuration portal (SpecApp) ----
    wifiMode,            \* the mode set by WiFi.mode()
    sntpInited,          \* TRUE once sntp_init() has run
    m_pApName,           \* WiFiTimeManager::m_pApName
    m_pApPassword,       \* WiFiTimeManager::m_pApPassword
    tzEnv,               \* the TZ environment variable in force (after tzset())
    webPage,             \* the Setup page's JSON data in WebPageBuffer
    m_pSaveParamsCallback, \* TRUE when the user installed a save-params callback
    iLast,               \* record of the most recent Init() call
    pLast,               \* record of the most recent SaveParamCallback() call
    tmLast,              \* record of the most recent GetLocalTime() call
    m_pUpdateWebPageCallback, \* whether a web page callback is set (NULL otherwise)
    hLast,               \* the web page callback's calls in the most recent operation
    \* ---- process() and autoConnect() of the SNTP implementation (SpecConn) ----
    cLast,               \* record of the most recent process() or autoConnect() call
    \* ---- GetUtcTimeT() against the SNTP task (SpecRace) ----
    race,                \* where both tasks are, and the locals of GetUtcTimeT()
    \* ---- the Timezone library implementation (SpecTzlib) ----
    m_Timezone,          \* the rules held by the Timezone object: m_dst and m_std
    m_pLclTimeChangeRule, \* "NULL", or the rule of m_Timezone it points to
    oLast,               \* record of the most recent operation of that implementation
    \* ---- the rule setters (SpecPortal) ----
    setterCalls          \* how many calls of the rule setters have been made

nvsVars == <<m_Params, nvsBlob, nvsOther, wifiCreds, last, prev>>

clockVars == <<millis, upSec, upFrac, ticks, sysOfs, rtcOfs>>

sntpVars == <<m_LastUpdateMs, m_MinNtpRateMs, m_UsingNetworkTime, m_pUtcGetCallback,
              m_pUtcSetCallback, sntpStarted, sLast>>

sntpOnlyVars == <<m_LastUpdateMs, m_MinNtpRateMs, sntpStarted, sLast>>

udpVars == <<m_MinNtpRateSec, lastMs, lastMsInit, hadSync, connected, pc, call, uLast,
             sent, inflight, rxq>>

appVars == <<wifiMode, sntpInited, m_pApName, m_pApPassword, tzEnv, webPage,
             m_pSaveParamsCallback, iLast, pLast, tmLast, m_pUpdateWebPageCallback,
             hLast>>

auxVars == <<cLast, race, m_Timezone, m_pLclTimeChangeRule, oLast, setterCalls>>

notNvsVars == <<clockVars, sntpVars, udpVars, appVars, auxVars>>

notSntpVars == <<nvsVars, udpVars, appVars, auxVars>>

notUdpVars == <<nvsVars, sntpOnlyVars, appVars, auxVars>>

vars == <<nvsVars, clockVars, sntpVars, udpVars, appVars, auxVars>>

-----------------------------------------------------------------------------
(***************************************************************************)
(* uint32_t arithmetic.  A uint32_t is kept as its two 16-bit halves, so   *)
(* that every value of the type and its wrap-around can be represented.    *)
(***************************************************************************)
Half == 65536

\* The uint32_t with value n, for 0 <= n < 2^31.
U32(n) == [hi |-> n \div Half, lo |-> n % Half]

\* Conversion of an int32_t to uint32_t (negative values wrap to 2^32 + v).
I32ToU32(v) ==
    IF v >= 0 THEN U32(v)
    ELSE LET x == (v + 2147483647) + 1
         IN  [hi |-> (x \div Half) + 32768, lo |-> x % Half]

U32Add(a, b) ==
    LET lo == a.lo + b.lo
    IN  [hi |-> (a.hi + b.hi + (lo \div Half)) % Half, lo |-> lo % Half]

U32Sub(a, b) ==
    LET lo == a.lo - b.lo
    IN  [hi |-> (a.hi - b.hi - (IF lo < 0 THEN 1 ELSE 0)) % Half, lo |-> lo % Half]

\* a * k in uint32_t, for 0 <= k < 2^15.
U32MulK(a, k) ==
    LET lo == a.lo * k
    IN  [hi |-> (a.hi * k + (lo \div Half)) % Half, lo |-> lo % Half]

U32Less(a, b) == a.hi < b.hi \/ (a.hi = b.hi /\ a.lo < b.lo)

U32Leq(a, b) == a = b \/ U32Less(a, b)

-----------------------------------------------------------------------------
(***************************************************************************)
(* TimeParameters and its compiled-in defaults.                            *)
(***************************************************************************)
TP_VERSION == 7

DFLT_TZ_OFST == -300

DFLT_DST_OFST == 60

OFFSET_MIN == 30

OFFSET_MAX == 60

OFFSET_MID == (OFFSET_MAX + OFFSET_MIN) \div 2

\* sizeof(TimeParameters): 4 + 4 + 1 (+3 pad) + 4 + 26 (+2 pad) + 2 * 16.
SizeofTimeParameters == 76

\* TimeParameters::TimeParameters()
DefaultParams ==
    [ m_Version      |-> TP_VERSION,
      m_TzOfst       |-> DFLT_TZ_OFST,
      m_UseDst       |-> TRUE,
      m_DstOfst      |-> DFLT_DST_OFST,
      m_NtpAddr      |-> "time.nist.gov",
      m_DstStartRule |-> [abbrev |-> "EDT", week |-> 2, dow |-> 0, month |-> 3,
                          hour |-> 2, offset |-> DFLT_TZ_OFST + DFLT_DST_OFST],
      m_DstEndRule   |-> [abbrev |-> "EST", week |-> 1, dow |-> 0, month |-> 11,
                          hour |-> 2, offset |-> DFLT_TZ_OFST] ]

-----------------------------------------------------------------------------
(***************************************************************************)
(* The Preferences (NVS) store.  A stored value is a blob: its length in   *)
(* bytes and its content.  NoBlob stands for an absent key.                *)
(***************************************************************************)
NoBlob == [size |-> 0, data |-> "none"]

Blob(n, d) == [size |-> n, data |-> d]

\* Preferences::getBytes(key, buf, maxLen): 0 when the key is absent or the
\* stored value is longer than maxLen, the stored length otherwise.
GetBytesLen(blob, maxLen) ==
    IF blob = NoBlob \/ blob.size > maxLen THEN 0 ELSE blob.size

\* Save() without its read-back comparison: it writes on every call.
SaveNeedsWrite_Always(blob, params) == TRUE

\* The test of Save(): the stored state differs from the working state.
SaveNeedsWrite(blob, params) ==
    IF GetBytesLen(blob, SizeofTimeParameters) # SizeofTimeParameters
    THEN TRUE
    ELSE blob.data # params

\* Restore() without the version gate.
RestoreAccepts_NoVersionCheck(blob) ==
    GetBytesLen(blob, SizeofTimeParameters) = SizeofTimeParameters

\* Restore() accepting any non-empty read.
RestoreAccepts_AnyLength(blob) ==
    /\ GetBytesLen(blob, SizeofTimeParameters) > 0
    /\ blob.data.m_Version = TP_VERSION

\* The test of Restore(): the read was complete and the version matches.
RestoreAccepts(blob) ==
    /\ GetBytesLen(blob, SizeofTimeParameters) = SizeofTimeParameters
    /\ blob.data.m_Version = TP_VERSION

\* Inputs of the model: values handed to the setters.
TzOfstInputs == {-300, 60}

DstOfstInputs == {-5, 45, 46}

\* Blobs an earlier firmware may have left in the store.
OldVersionBlob == Blob(SizeofTimeParameters, [DefaultParams EXCEPT !.m_Version = TP_VERSION - 1])

ShortBlob == Blob(SizeofTimeParameters - 4, [DefaultParams EXCEPT !.m_Version = TP_VERSION])

LongBlob == Blob(SizeofTimeParameters + 4, [DefaultParams EXCEPT !.m_Version = TP_VERSION])

InitialBlobs ==
    { NoBlob, OldVersionBlob, ShortBlob, LongBlob,
      Blob(SizeofTimeParameters, DefaultParams),
      Blob(SizeofTimeParameters, [DefaultParams EXCEPT !.m_TzOfst = 60]) }

(***************************************************************************)
(* The clocks.  The true UTC time at boot is NtpEpoch; the user's clock    *)
(* (an RTC read and set by the user callbacks) starts RtcLag seconds       *)
(* behind it; the system clock starts at 0.                                *)
(***************************************************************************)
NtpEpoch == 1700000000

RtcLag == 7

MS_PER_SEC == 1000

\* Largest number of clock advances in a behaviour.
MaxTicks == 3

\* time(): the system clock.
SysNow == sysOfs + upSec

\* What the user's get-callback returns.
RtcNow == rtcOfs + upSec

\* What the NTP server reports.
NtpNow == NtpEpoch + upSec

BootClock ==
    /\ millis = U32(0)
    /\ upSec = 0
    /\ upFrac = 0
    /\ ticks = 0
    /\ sysOfs = 0
    /\ rtcOfs = NtpEpoch - RtcLag

\* The clock advances by d milliseconds (0 < d < 2^31).
Advance(d) ==
    /\ ticks < MaxTicks
    /\ ticks' = ticks + 1
    /\ millis' = U32Add(millis, U32(d))
    /\ upSec' = upSec + (d \div MS_PER_SEC) + ((upFrac + (d % MS_PER_SEC)) \div MS_PER_SEC)
    /\ upFrac' = (upFrac + (d % MS_PER_SEC)) % MS_PER_SEC
    /\ UNCHANGED <<sysOfs, rtcOfs>>

SNoOp == [op |-> "none", force |-> FALSE, elapsed |-> U32(0), rate |-> U32(0),
          cbInvoked |-> FALSE, ret |-> 0, preUsing |-> FALSE, arg |-> U32(0)]

\* WiFiTimeManager::WiFiTimeManager()
SntpConstructed ==
    /\ m_LastUpdateMs = U32(0)
    /\ m_MinNtpRateMs = U32(60 * 60 * 1000)
    /\ m_UsingNetworkTime = FALSE
    /\ m_pUtcGetCallback = FALSE
    /\ m_pUtcSetCallback = FALSE
    /\ sntpStarted = FALSE
    /\ sLast = SNoOp

NoCall == [caller |-> "none", startMs |-> U32(0), startConnected |-> FALSE,
           prevCall |-> FALSE, prevSent |-> FALSE, sincePrev |-> U32(0),
           hadSync |-> FALSE, sinceSync |-> U32(0), rate |-> U32(0), sent |-> FALSE,
           reqId |-> 0, beginWaitMs |-> U32(0), bigArrived |-> FALSE, path |-> "none",
           nowMs |-> U32(0), pktReq |-> 0, pktSecs |-> U32(0), ret |-> U32(0),
           setCbCalls |-> 0, setCbArg |-> U32(0), preSysOfs |-> U32(0),
           preRtcOfs |-> U32(0),
           preUsing |-> FALSE, fresh |-> FALSE]

\* WiFiTimeManager::WiFiTimeManager() of the UDP based implementation.
UdpConstructed ==
    /\ m_MinNtpRateSec = U32(60 * 60)
    /\ lastMs = U32(0)
    /\ lastMsInit = FALSE
    /\ hadSync = FALSE
    /\ connected = FALSE
    /\ pc = "idle"
    /\ call = NoCall
    /\ uLast = NoCall
    /\ sent = 0
    /\ inflight = {}
    /\ rxq = <<>>

NoInit == [calls |-> 0, name |-> "NULL", ret |-> FALSE, restoreCalls |-> 0,
           restoreRet |-> FALSE, saveCalls |-> 0, saveRet |-> FALSE]

NoPortal == [calls |-> 0, steps |-> <<>>, seenParams |-> "none", seenTz |-> "none",
             seenPage |-> "none"]

\* No operation that makes the Setup page yet.
NoHook == [op |-> "none", webCalls |-> 0]

\* No GetLocalTime() call yet.
NoTm == [op |-> "none", utc |-> 0, local |-> 0, tm_year |-> 1970, tm_yday |-> 0,
         tm_hour |-> 0, tm_min |-> 0, tm_sec |-> 0, tm_isdst |-> 0, ret |-> "NULL"]

\* No process() or autoConnect() call yet.
NoConn == [op |-> "none", preConnected |-> FALSE, made |-> FALSE, starts |-> 0]

\* Neither task is inside GetUtcTimeT() or a time sync.
NoRace == [gpc |-> "idle", spc |-> "idle", overlap |-> FALSE, force |-> FALSE,
           millisNow |-> U32(0), updateTimedOut |-> FALSE, timeNow |-> 0,
           syncSec |-> 0, syncMs |-> U32(0)]

\* No operation of the Timezone library implementation yet.
NoTzlibOp == [op |-> "none", utc |-> 0, local |-> 0, ret |-> "NULL", restored |-> FALSE]

\* Timezone::setRules(dstStart, stdStart): "m_dst = dstStart; m_std = stdStart;"
\* and the cached change points are cleared, so that the next conversion
\* computes them from these rules.
setRules(dstStart, stdStart) == [m_dst |-> dstStart, m_std |-> stdStart]

\* The rules that UpdateTimezoneRules() of the Timezone library
\* implementation gives m_Timezone for the parameters p.
TimezoneRulesFor(p) ==
    IF p.m_UseDst THEN setRules(p.m_DstStartRule, p.m_DstEndRule)
    ELSE setRules(p.m_DstEndRule, p.m_DstEndRule)

\* TP_VERSION of the Timezone library implementation's header.
TZLIB_TP_VERSION == 4

\* DFLT_NTP_PORT
DFLT_NTP_PORT == 123

\* TimeParameters::TimeParameters() of the Timezone library implementation:
\* the same defaults, with the NTP port as a further member and the days of
\* the week counted as the library counts them, from Sun = 1.
TzlibDefaultParams ==
    [ m_Version      |-> TZLIB_TP_VERSION,
      m_TzOfst       |-> DFLT_TZ_OFST,
      m_UseDst       |-> TRUE,
      m_DstOfst      |-> DFLT_DST_OFST,
      m_NtpAddr      |-> "time.nist.gov",
      m_NtpPort      |-> DFLT_NTP_PORT,
      m_DstStartRule |-> [abbrev |-> "EDT", week |-> 2, dow |-> 1, month |-> 3,
                          hour |-> 2, offset |-> DFLT_TZ_OFST + DFLT_DST_OFST],
      m_DstEndRule   |-> [abbrev |-> "EST", week |-> 1, dow |-> 1, month |-> 11,
                          hour |-> 2, offset |-> DFLT_TZ_OFST] ]

\* The parts of the state that only SpecConn, SpecRace and SpecTzlib work on;
\* the constructor of the Timezone library implementation ends with
\* "UpdateTimezoneRules();" on the default parameters.
AuxConstructed ==
    /\ cLast = NoConn
    /\ race = NoRace
    /\ m_Timezone = TimezoneRulesFor(TzlibDefaultParams)
    /\ m_pLclTimeChangeRule = "NULL"
    /\ oLast = NoTzlibOp
    /\ setterCalls = 0

\* The part of the constructed object, and of the platform at boot, that
\* Init() and the portal work on: no AP name yet, no callback, WiFi in the
\* platform's default mode, SNTP not initialised, TZ not set, no Setup page.
AppConstructed ==
    /\ wifiMode = "WIFI_AP_STA"
    /\ sntpInited = FALSE
    /\ m_pApName = "NULL"
    /\ m_pApPassword = "NULL"
    /\ tzEnv = "unset"
    /\ webPage = "none"
    /\ m_pSaveParamsCallback = FALSE
    /\ iLast = NoInit
    /\ pLast = NoPortal
    /\ tmLast = NoTm
    /\ m_pUpdateWebPageCallback = FALSE
    /\ hLast = NoHook
    /\ AuxConstructed

NoOp == [op |-> "none", ret |-> FALSE, wrote |-> FALSE, putRet |-> 0,
         pre |-> DefaultParams, preBlob |-> NoBlob, preCreds |-> FALSE, arg |-> 0]

OpRec(op, ret, wrote, putRet) ==
    [op |-> op, ret |-> ret, wrote |-> wrote, putRet |-> putRet,
     pre |-> m_Params, preBlob |-> nvsBlob, preCreds |-> wifiCreds, arg |-> 0]

InitNvs ==
    /\ m_Params = DefaultParams
    /\ nvsBlob \in InitialBlobs
    /\ nvsOther \in BOOLEAN
    /\ wifiCreds \in BOOLEAN
    /\ last = NoOp
    /\ prev = NoOp
    /\ BootClock
    /\ SntpConstructed
    /\ UdpConstructed
    /\ AppConstructed

\* Preferences::putBytes() returns the length written, or 0 when it fails.
PutBytesReturns == {0, SizeofTimeParameters}

\* Save() ignoring the count that putBytes() reports.
SaveResult_IgnoresCount(putRet) == TRUE

\* "saved = (prefs.putBytes(...) == sizeof(TimeParameters))"
SaveResult(putRet) == putRet = SizeofTimeParameters

\* WiFiTimeManager::Save(); putRet is what Preferences::putBytes() returns if
\* Save() calls it.  When the stored state equals the working state nothing is
\* written and putBytes() is not called (one value of putRet stands for all).
Save(putRet) ==
    /\ IF SaveNeedsWrite(nvsBlob, m_Params)
       THEN /\ nvsBlob' = IF putRet = SizeofTimeParameters
                          THEN Blob(SizeofTimeParameters, m_Params)
                          ELSE nvsBlob
            /\ last' = OpRec("Save", SaveResult(putRet), TRUE, putRet)
       ELSE /\ putRet = 0
            /\ nvsBlob' = nvsBlob
            /\ last' = OpRec("Save", TRUE, FALSE, 0)
    /\ prev' = last
    /\ UNCHANGED <<m_Params, nvsOther, wifiCreds, notNvsVars>>

\* WiFiTimeManager::Restore()
Restore ==
    /\ IF RestoreAccepts(nvsBlob)
       THEN /\ m_Params' = nvsBlob.data
            /\ last' = OpRec("Restore", TRUE, FALSE, 0)
       ELSE /\ m_Params' = m_Params
            /\ last' = OpRec("Restore", FALSE, FALSE, 0)
    /\ prev' = last
    /\ UNCHANGED <<nvsBlob, nvsOther, wifiCreds, notNvsVars>>

\* Preferences::remove(key): TRUE when the key was there and has been erased.
RemoveReturns(blob) == blob # NoBlob

\* Preferences::clear() leaving the saved state where it is.
ClearedBlob_Kept(blob) == blob

\* Preferences::clear() erases every key of the namespace, the saved state
\* included.
ClearedBlob(blob) == NoBlob

\* WiFiTimeManager::ResetData(): resetSettings() clears the WiFi credentials,
\* Preferences::clear() erases every key of the namespace.
ResetData ==
    /\ wifiCreds' = FALSE
    /\ nvsOther' = FALSE
    /\ nvsBlob' = ClearedBlob(nvsBlob)
    /\ last' = OpRec("ResetData", TRUE, FALSE, 0)
    /\ prev' = last
    /\ UNCHANGED <<m_Params, notNvsVars>>

\* WiFiTimeManager::Reset(): ResetData(), then Preferences::remove() of the
\* key in the namespace that ResetData() has just cleared.
Reset ==
    /\ wifiCreds' = FALSE
    /\ nvsOther' = FALSE
    /\ nvsBlob' = NoBlob
    /\ last' = OpRec("Reset", RemoveReturns(ClearedBlob(nvsBlob)), FALSE, 0)
    /\ prev' = last
    /\ UNCHANGED <<m_Params, notNvsVars>>

\* "(v <= OFFSET_MID ? OFFSET_MIN : OFFSET_MAX)" with v converted to uint32_t.
DstOfstFor(v) == IF U32Leq(I32ToU32(v), U32(OFFSET_MID)) THEN OFFSET_MIN ELSE OFFSET_MAX

SetTzOfst(v) ==
    /\ m_Params' = [m_Params EXCEPT !.m_TzOfst = v]
    /\ last' = OpRec("SetTzOfst", TRUE, FALSE, 0)
    /\ prev' = last
    /\ UNCHANGED <<nvsBlob, nvsOther, wifiCreds, notNvsVars>>

\* WiFiTimeManager::SetDstOfst(int32_t v): "v <= OFFSET_MID" compares v with a
\* uint32_t constant, so v is converted to unsigned first.
SetDstOfst(v) ==
    /\ m_Params' = [m_Params EXCEPT !.m_DstOfst = DstOfstFor(v)]
    /\ last' = [OpRec("SetDstOfst", TRUE, FALSE, 0) EXCEPT !.arg = v]
    /\ prev' = last
    /\ UNCHANGED <<nvsBlob, nvsOther, wifiCreds, notNvsVars>>

SetUseDst(v) ==
    /\ m_Params' = [m_Params EXCEPT !.m_UseDst = v]
    /\ last' = OpRec("SetUseDst", TRUE, FALSE, 0)
    /\ prev' = last
    /\ UNCHANGED <<nvsBlob, nvsOther, wifiCreds, notNvsVars>>

NextNvs ==
    \/ \E putRet \in PutBytesReturns : Save(putRet)
    \/ Restore
    \/ ResetData
    \/ Reset
    \/ \E v \in TzOfstInputs : SetTzOfst(v)
    \/ \E v \in BOOLEAN : SetUseDst(v)
    \/ \E v \in DstOfstInputs : SetDstOfst(v)

SpecNvs == InitNvs /\ [][NextNvs]_vars

-----------------------------------------------------------------------------
(***************************************************************************)
(* Properties of the persisted blob (SpecNvs).                             *)
(***************************************************************************)

\* The stored value before the last operation was a full-size TimeParameters.
PreBlobFullSize == last.preBlob.size = SizeofTimeParameters

\* C7: Restore() on a stored blob of exactly sizeof(TimeParameters) bytes whose
\* m_Version differs from TP_VERSION returns false and leaves every field of
\* the in-memory TimeParameters as it was.
C7_VersionGate ==
    (/\ last.op = "Restore"
     /\ PreBlobFullSize
     /\ last.preBlob.data.m_Version # TP_VERSION)
        => (last.ret = FALSE /\ m_Params = last.pre)

\* A Restore() met a full-size blob of version TP_VERSION - 1 while the working
\* parameters differed from the blob in another field too.
C7_Witness ==
    /\ last.op = "Restore"
    /\ last.preBlob = OldVersionBlob
    /\ last.pre.m_TzOfst # OldVersionBlob.data.m_TzOfst
    /\ last.pre.m_UseDst # OldVersionBlob.data.m_UseDst

\* C8: Restore() returns true if and only if the store holds exactly
\* sizeof(TimeParameters) bytes whose version is TP_VERSION; when it returns
\* true the in-memory parameters equal the stored blob, and otherwise (short,
\* over-long or missing value, wrong version) they are left untouched.
C8_RestoreIff ==
    last.op = "Restore" =>
        /\ last.ret = (PreBlobFullSize /\ last.preBlob.data.m_Version = TP_VERSION)
        /\ last.ret => (m_Params = last.preBlob.data /\ nvsBlob = last.preBlob)
        /\ ~last.ret => m_Params = last.pre

\* A successful Restore() that replaced working parameters which a setter had
\* changed and which differed from the stored ones.
C8_Witness ==
    /\ last.op = "Restore" /\ last.ret
    /\ last.pre # m_Params /\ last.pre # DefaultParams

\* Two consecutive Save() calls (Save() does not change the parameters, so
\* there is no mutation between them), the first of which found the store
\* without an identical blob.
TwoSaves ==
    /\ prev.op = "Save" /\ last.op = "Save"
    /\ prev.preBlob # Blob(SizeofTimeParameters, prev.pre)

C10_SaveResult ==
    last.op = "Save" =>
        /\ (last.ret = FALSE) = (last.wrote /\ last.putRet # SizeofTimeParameters)
        /\ last.preBlob = Blob(SizeofTimeParameters, last.pre)
              => (last.ret /\ ~last.wrote /\ nvsBlob = last.preBlob)
        /\ (last.wrote /\ ~last.ret) => nvsBlob = last.preBlob
        /\ m_Params = last.pre

\* A Save() that failed because putBytes() reported 0, following a Save() that
\* skipped the write.
C10_Witness ==
    /\ last.op = "Save" /\ ~last.ret /\ last.wrote /\ last.putRet = 0
    /\ last.pre # DefaultParams

\* C13: Reset() erases the persisted timezone/DST/NTP data and does not
\* affect the saved WiFi credentials.
C13_Original ==
    last.op = "Reset" => (nvsBlob = NoBlob /\ wifiCreds = last.preCreds)

\* C14: Reset() returns true whenever, on return, the saved state is no longer
\* in the store.
C14_Original ==
    (last.op = "Reset" /\ nvsBlob = NoBlob) => last.ret

\* C15: after ResetData() the WiFi credentials are cleared and the namespace
\* is empty, ResetData() has not changed the working parameters, and a
\* Restore() that follows returns false.
C15_ResetDataClears ==
    /\ last.op = "ResetData"
         => (~wifiCreds /\ nvsBlob = NoBlob /\ ~nvsOther /\ m_Params = last.pre)
    /\ (last.op = "Restore" /\ prev.op = "ResetData")
         => (~last.ret /\ m_Params = last.pre)

\* Restore() right after a ResetData() that found saved credentials, another
\* key and a saved state that Restore() would have accepted.
C15_Witness ==
    /\ last.op = "Restore"
    /\ prev.op = "ResetData"
    /\ prev.preCreds
    /\ RestoreAccepts(prev.preBlob)
    /\ prev.preBlob.data # m_Params

-----------------------------------------------------------------------------
(***************************************************************************)
(* SNTP based time keeping (src/WiFiTimeManager.cpp).                      *)
(***************************************************************************)
MIN_NTP_UPDATE_MS == 15000

\* Clock advances offered to the model, in milliseconds: just below and on the
\* 4 x 15000 ms boundary, up to the 4 x 3600000 ms boundary, and half the
\* range of millis() so that the counter wraps.
TickSteps == {1, 59999, 14340000, 2147483647}

\* Arguments offered to SetMinNtpRateSec(), in seconds: below the floor, the
\* floor, the default, a value whose fourfold in ms exceeds 32 bits, and a
\* value that itself exceeds 32 bits when counted in ms.
RateInputs == {1, 15, 3600, 1073742, 4294968}

InitSntp ==
    /\ m_Params = DefaultParams
    /\ nvsBlob = NoBlob
    /\ nvsOther = FALSE
    /\ wifiCreds = FALSE
    /\ last = NoOp
    /\ prev = NoOp
    /\ BootClock
    /\ SntpConstructed
    /\ UdpConstructed
    /\ AppConstructed

\* "(millisNow - m_LastUpdateMs) >= 4 * m_MinNtpRateMs", all in uint32_t.
UpdateTimedOut(millisNow, lastUpdateMs, minNtpRateMs) ==
    U32Leq(U32MulK(minNtpRateMs, 4), U32Sub(millisNow, lastUpdateMs))

\* The flag cleared only on the path that does not use the callback.
UsingAfterCall_OnlyWithoutCallback(updateTimedOut, useCallback, using) ==
    IF updateTimedOut /\ ~useCallback THEN FALSE ELSE using

\* The flag set whenever the callback has supplied the time.
UsingAfterCall_SetByCallback(updateTimedOut, useCallback, using) ==
    IF updateTimedOut THEN FALSE ELSE (using \/ useCallback)

\* "if (updateTimedOut) { m_UsingNetworkTime = false; }"
UsingAfterCall(updateTimedOut, useCallback, using) ==
    IF updateTimedOut THEN FALSE ELSE using

\* The body of WiFiTimeManager::GetUtcTimeT(force), recorded as operation op.
GetUtcTimeTBody(force, op) ==
    LET millisNow      == millis
        updateTimedOut == UpdateTimedOut(millisNow, m_LastUpdateMs, m_MinNtpRateMs)
        useCallback    == m_pUtcGetCallback /\ (force \/ updateTimedOut)
        timeNow        == IF useCallback THEN RtcNow ELSE SysNow
    IN  /\ sysOfs' = IF useCallback THEN timeNow - upSec ELSE sysOfs
        /\ m_LastUpdateMs' = IF useCallback THEN millisNow ELSE m_LastUpdateMs
        /\ m_UsingNetworkTime' = UsingAfterCall(updateTimedOut, useCallback, m_UsingNetworkTime)
        /\ sLast' = [op |-> op, force |-> force,
                     elapsed |-> U32Sub(millisNow, m_LastUpdateMs),
                     rate |-> m_MinNtpRateMs, cbInvoked |-> useCallback,
                     ret |-> timeNow, preUsing |-> m_UsingNetworkTime,
                     arg |-> U32(0)]

\* WiFiTimeManager::GetUtcTimeT(force); GetUtcTime(pTm) and GetLocalTime(pTm)
\* are GetUtcTimeT(false) followed by a conversion of the result.
GetUtcTimeT(force) ==
    /\ GetUtcTimeTBody(force, "GetUtcTimeT")
    /\ UNCHANGED <<millis, upSec, upFrac, ticks, rtcOfs, m_MinNtpRateMs,
                   m_pUtcGetCallback, m_pUtcSetCallback, sntpStarted, notSntpVars>>

\* WiFiTimeManager::StartNewConnection(): InitSntpTime() registers
\* UtcSetCallback, then GetUtcTimeT() primes the clock.
StartNewConnection ==
    /\ sntpStarted' = TRUE
    /\ GetUtcTimeTBody(FALSE, "StartNewConnection")
    /\ UNCHANGED <<millis, upSec, upFrac, ticks, rtcOfs, m_MinNtpRateMs,
                   m_pUtcGetCallback, m_pUtcSetCallback, notSntpVars>>

\* WiFiTimeManager::UtcSetCallback(pTv), run when SNTP has synchronised the
\* system clock to the server's time pTv->tv_sec.
UtcSetCallback ==
    /\ sntpStarted
    /\ sysOfs' = NtpNow - upSec
    /\ m_UsingNetworkTime' = TRUE
    /\ rtcOfs' = IF m_pUtcSetCallback THEN NtpNow - upSec ELSE rtcOfs
    /\ m_LastUpdateMs' = millis
    /\ sLast' = [op |-> "UtcSetCallback", force |-> FALSE,
                 elapsed |-> U32Sub(millis, m_LastUpdateMs),
                 rate |-> m_MinNtpRateMs, cbInvoked |-> m_pUtcSetCallback,
                 ret |-> NtpNow, preUsing |-> m_UsingNetworkTime,
                 arg |-> U32(0)]
    /\ UNCHANGED <<millis, upSec, upFrac, ticks, m_MinNtpRateMs,
                   m_pUtcGetCallback, m_pUtcSetCallback, sntpStarted, notSntpVars>>

\* "max(rate * 1000, MIN_NTP_UPDATE_MS)", in uint32_t.
MinNtpRateMsFor(rate) ==
    LET ms == U32MulK(rate, 1000)
    IN  IF U32Less(ms, U32(MIN_NTP_UPDATE_MS)) THEN U32(MIN_NTP_UPDATE_MS) ELSE ms

\* WiFiTimeManager::SetMinNtpRateSec(rate)
SetMinNtpRateSec(rate) ==
    /\ m_MinNtpRateMs' = MinNtpRateMsFor(U32(rate))
    /\ sLast' = [SNoOp EXCEPT !.op = "SetMinNtpRateSec", !.rate = MinNtpRateMsFor(U32(rate)),
                              !.preUsing = m_UsingNetworkTime, !.arg = U32(rate)]
    /\ UNCHANGED <<clockVars, m_LastUpdateMs, m_UsingNetworkTime, m_pUtcGetCallback,
                   m_pUtcSetCallback, sntpStarted, notSntpVars>>

\* WiFiTimeManager::GetMinNtpRateSec(), "return m_MinNtpRateMs;": the record
\* keeps what it returned, in rate, and the argument of the
\* SetMinNtpRateSec() call it follows, if it follows one.
GetMinNtpRateSec ==
    /\ sLast' = [SNoOp EXCEPT !.op = "GetMinNtpRateSec",
                              !.rate = m_MinNtpRateMs,
                              !.preUsing = m_UsingNetworkTime,
                              !.arg = IF sLast.op = "SetMinNtpRateSec"
                                      THEN sLast.arg ELSE U32(0)]
    /\ UNCHANGED <<clockVars, m_LastUpdateMs, m_MinNtpRateMs, m_UsingNetworkTime,
                   m_pUtcGetCallback, m_pUtcSetCallback, sntpStarted, notSntpVars>>

\* WiFiTimeManager::SetUtcGetCallback(func); func may be NULL.
SetUtcGetCallback(func) ==
    /\ m_pUtcGetCallback' = func
    /\ sLast' = [SNoOp EXCEPT !.op = "SetUtcGetCallback", !.preUsing = m_UsingNetworkTime]
    /\ UNCHANGED <<clockVars, m_LastUpdateMs, m_MinNtpRateMs, m_UsingNetworkTime,
                   m_pUtcSetCallback, sntpStarted, notSntpVars>>

\* WiFiTimeManager::SetUtcSetCallback(func); func may be NULL.
SetUtcSetCallback(func) ==
    /\ m_pUtcSetCallback' = func
    /\ sLast' = [SNoOp EXCEPT !.op = "SetUtcSetCallback", !.preUsing = m_UsingNetworkTime]
    /\ UNCHANGED <<clockVars, m_LastUpdateMs, m_MinNtpRateMs, m_UsingNetworkTime,
                   m_pUtcGetCallback, sntpStarted, notSntpVars>>

\* Time passes between two calls.
TickSntp(d) ==
    /\ Advance(d)
    /\ sLast' = [SNoOp EXCEPT !.op = "Tick", !.preUsing = m_UsingNetworkTime]
    /\ UNCHANGED <<m_LastUpdateMs, m_MinNtpRateMs, m_UsingNetworkTime, m_pUtcGetCallback,
                   m_pUtcSetCallback, sntpStarted, notSntpVars>>

NextSntp ==
    \/ \E force \in BOOLEAN : GetUtcTimeT(force)
    \/ StartNewConnection
    \/ UtcSetCallback
    \/ \E rate \in RateInputs : SetMinNtpRateSec(rate)
    \/ GetMinNtpRateSec
    \/ \E func \in BOOLEAN : SetUtcGetCallback(func)
    \/ \E func \in BOOLEAN : SetUtcSetCallback(func)
    \/ \E d \in TickSteps : TickSntp(d)

SpecSntp == InitSntp /\ [][NextSntp]_vars

-----------------------------------------------------------------------------
(***************************************************************************)
(* Properties of the SNTP based time keeping (SpecSntp).                   *)
(***************************************************************************)

\* The elapsed time e is at least four times the interval m, the product
\* taken without wrap-around: 4 * m fits 32 bits only when m < 2^30, and no
\* uint32_t elapsed time reaches a larger product.
AtLeastFourIntervals(e, m) ==
    /\ m.hi < 16384
    /\ U32Leq([hi |-> 4 * m.hi + ((4 * m.lo) \div Half), lo |-> (4 * m.lo) % Half], e)

\* The last operation ran the body of GetUtcTimeT().
CalledGetUtcTimeT == sLast.op \in {"GetUtcTimeT", "StartNewConnection"}

\* C5: after any call of GetUtcTimeT() at which the time elapsed since the last
\* recorded update is at least 4 x the minimum NTP interval, UsingNetworkTime()
\* is false, with or without a get-callback and without a new sync attempt.
C5_OverdueClearsFlag ==
    (CalledGetUtcTimeT /\ AtLeastFourIntervals(sLast.elapsed, sLast.rate))
        => m_UsingNetworkTime = FALSE

\* A call without get-callback found the update overdue while the flag was
\* still set from an earlier sync, and cleared it.
C5_Witness ==
    /\ sLast.op = "GetUtcTimeT"
    /\ AtLeastFourIntervals(sLast.elapsed, sLast.rate)
    /\ sLast.preUsing /\ ~sLast.cbInvoked /\ ~m_pUtcGetCallback
    /\ ~m_UsingNetworkTime

-----------------------------------------------------------------------------
(***************************************************************************)
(* The UDP based GetUtcTime() and process() (SpecUdp).  GetUtcTime() blocks *)
(* in two loops, so it is modelled in steps: pc tells whether it is idle,  *)
(* draining old packets, or waiting for the reply.                         *)
(***************************************************************************)

UDP_TIMEOUT_MS == 2000

NTP_PACKET_SIZE == 48

MIN_NTP_UPDATE_SEC == 4

\* SEVENTY_YEARS = 2208988800UL, as a uint32_t.
SEVENTY_YEARS == [hi |-> 33706, lo |-> 32384]

\* The largest number of packets held by the socket's receive queue.
MaxRxq == 1

\* The largest number of clock advances in a run of SpecUdp.
MaxUdpTicks == 2

\* Clock advances offered to the model, in milliseconds: the settle delay of
\* process() and a part of the wait window, and the whole wait window.
UdpTickSteps == {500, 2000}

\* Arguments offered to SetMinNtpRate(), in seconds: below the floor, and the
\* smallest value whose product with 1000 exceeds 32 bits.
UdpRateInputs == {1, 4294968}

\* The value of a uint32_t below 2^31 as a number.
U32ToNat(a) == a.hi * Half + a.lo

\* The clocks of SpecUdp hold time_t values as uint32_t: the constructor's
\* "setTime(SEVENTY_YEARS);" starts the system clock, and the user's clock
\* runs RtcLag seconds behind the server's.
UdpBootClock ==
    /\ millis = U32(0)
    /\ upSec = 0
    /\ upFrac = 0
    /\ ticks = 0
    /\ sysOfs = SEVENTY_YEARS
    /\ rtcOfs = U32(NtpEpoch - RtcLag)

\* now() of the Time library: the system clock.
now == U32Add(sysOfs, U32(upSec))

\* What the user's get-callback returns.
UdpRtcNow == U32Add(rtcOfs, U32(upSec))

InitUdp ==
    /\ m_Params = DefaultParams
    /\ nvsBlob = NoBlob
    /\ nvsOther = FALSE
    /\ wifiCreds = FALSE
    /\ last = NoOp
    /\ prev = NoOp
    /\ UdpBootClock
    /\ SntpConstructed
    /\ UdpConstructed
    /\ AppConstructed

\* Once the state has moved on, only what the next call is compared with is
\* kept of the last completed call: when it began and whether it emitted a
\* request.
Stale(rec) ==
    IF rec.caller = "none" THEN rec
    ELSE [NoCall EXCEPT !.caller = "past", !.startMs = rec.startMs, !.sent = rec.sent]

\* "return ...;" of GetUtcTime() with the call record rec.
Return(rec) ==
    /\ uLast' = [rec EXCEPT !.fresh = TRUE]
    /\ call' = NoCall
    /\ pc' = "idle"

\* "static uint32_t lastMs = millis() - (2 * m_MinNtpRateSec * MS_PER_SEC);"
\* the initialiser runs on the first call only.
StaticLastMs(ms) ==
    IF lastMsInit THEN lastMs
    ELSE U32Sub(ms, U32MulK(U32MulK(m_MinNtpRateSec, 2), MS_PER_SEC))

\* "!IsConnected() || (deltaMs < (m_MinNtpRateSec * MS_PER_SEC))", in uint32_t.
SkipRequest(conn, deltaMs, rateSec) ==
    ~conn \/ U32Less(deltaMs, U32MulK(rateSec, MS_PER_SEC))

\* GetUtcTime() from its entry to the rate limit test, called by caller when
\* millis() reads ms, the uptime is up seconds and IsConnected() returns conn.
BeginGetUtcTime(caller, conn, ms, up) ==
    LET last0    == StaticLastMs(ms)
        deltaMs  == U32Sub(ms, last0)
        fallback == IF m_pUtcGetCallback THEN U32Add(rtcOfs, U32(up))
                    ELSE U32Add(sysOfs, U32(up))
        rec      == [NoCall EXCEPT !.caller = caller, !.startMs = ms,
                                   !.prevCall = (uLast.caller # "none"),
                                   !.prevSent = uLast.sent,
                                   !.sincePrev = U32Sub(ms, uLast.startMs),
                                   !.startConnected = conn, !.hadSync = hadSync,
                                   !.sinceSync = deltaMs, !.rate = m_MinNtpRateSec,
                                   !.preSysOfs = sysOfs, !.preRtcOfs = rtcOfs,
                                   !.preUsing = m_UsingNetworkTime]
    IN  /\ lastMs' = last0
        /\ lastMsInit' = TRUE
        /\ IF SkipRequest(conn, deltaMs, m_MinNtpRateSec)
           THEN Return([rec EXCEPT !.path = "limited", !.ret = fallback])
           ELSE /\ pc' = "drain"
                /\ call' = rec
                /\ uLast' = Stale(uLast)
        /\ UNCHANGED <<m_MinNtpRateSec, hadSync, sent, inflight, rxq, sysOfs, rtcOfs,
                       m_UsingNetworkTime, m_pUtcGetCallback, m_pUtcSetCallback,
                       notUdpVars>>

\* The application calls WiFiTimeManager::GetUtcTime().
GetUtcTime ==
    /\ pc = "idle"
    /\ BeginGetUtcTime("user", connected, millis, upSec)
    /\ UNCHANGED <<connected, millis, upSec, upFrac, ticks>>

\* WiFiTimeManager::process() when WiFiManager::process() reports that a
\* connection was just made: "delay(500); GetUtcTime();".  When IsConnected()
\* already holds, or no connection was made, process() changes nothing.
process ==
    /\ pc = "idle"
    /\ ~connected
    /\ ticks < MaxUdpTicks
    /\ connected' = TRUE
    /\ Advance(500)
    /\ BeginGetUtcTime("process", TRUE, millis', upSec')

\* The reply of the NTP server to request id: its transmit timestamp is the
\* server's time in seconds since 1900.
Reply(id) == [req |-> id, size |-> NTP_PACKET_SIZE,
              secs |-> U32Add(SEVENTY_YEARS, U32(NtpNow))]

\* A datagram too short to be an NTP reply.
ShortPacket == [req |-> 0, size |-> 12, secs |-> U32(0)]

\* "while (m_Udp.parsePacket() > 0) ;" one iteration; when no packet is left:
\* "SendNtpPacket(); uint32_t beginWaitMs = millis();".  The server answers
\* the request or not.
DrainAndSend ==
    /\ pc = "drain"
    /\ IF rxq # <<>>
       THEN /\ rxq' = Tail(rxq)
            /\ UNCHANGED <<pc, call, sent, inflight>>
       ELSE /\ \E answered \in BOOLEAN :
                 inflight' = IF answered THEN inflight \cup {Reply(sent + 1)} ELSE inflight
            /\ sent' = sent + 1
            /\ call' = [call EXCEPT !.sent = TRUE, !.reqId = sent + 1,
                                    !.beginWaitMs = millis]
            /\ pc' = "wait"
            /\ rxq' = rxq
    /\ UNCHANGED <<clockVars, m_MinNtpRateSec, lastMs, lastMsInit, hadSync, connected,
                   uLast, m_UsingNetworkTime, m_pUtcGetCallback,
                   m_pUtcSetCallback, notUdpVars>>

\* "(millis() - beginWaitMs) < UDP_TIMEOUT_MS", in uint32_t.
WindowOpen(ms, beginWaitMs) == U32Less(U32Sub(ms, beginWaitMs), U32(UDP_TIMEOUT_MS))

\* The elapsed wait without rounding.
CorrectedEpoch_Truncated(secsSince1900, beginWaitMs, nowMs) ==
    U32Add(U32Sub(secsSince1900, SEVENTY_YEARS),
           U32(U32ToNat(U32Sub(nowMs, beginWaitMs)) \div MS_PER_SEC))

\* "(secsSince1900 - SEVENTY_YEARS) +
\*  (nowMs - beginWaitMs + MS_PER_SEC / 2) / MS_PER_SEC", in uint32_t; the
\* elapsed wait is below UDP_TIMEOUT_MS here.
CorrectedEpoch(secsSince1900, beginWaitMs, nowMs) ==
    U32Add(U32Sub(secsSince1900, SEVENTY_YEARS),
           U32((U32ToNat(U32Sub(nowMs, beginWaitMs)) + MS_PER_SEC \div 2) \div MS_PER_SEC))

\* The flag left as it was when the wait times out.
UsingAfterTimeout_Kept(using) == using

\* "m_UsingNetworkTime = false;" after the wait loop.
UsingAfterTimeout(using) == FALSE

\* One iteration of the wait loop that changes the state, or the exit of the
\* loop: a packet of at least NTP_PACKET_SIZE bytes is used as the reply, any
\* other packet is dropped, and the loop ends when the window has closed.
WaitForReply ==
    /\ pc = "wait"
    /\ IF ~WindowOpen(millis, call.beginWaitMs)
       THEN /\ m_UsingNetworkTime' = UsingAfterTimeout(m_UsingNetworkTime)
            /\ Return([call EXCEPT !.path = "timeout", !.nowMs = millis,
                                   !.ret = IF m_pUtcGetCallback THEN UdpRtcNow ELSE now])
            /\ UNCHANGED <<sysOfs, rtcOfs, lastMs, hadSync, rxq>>
       ELSE /\ rxq # <<>>
            /\ rxq' = Tail(rxq)
            /\ IF Head(rxq).size >= NTP_PACKET_SIZE
               THEN LET nowMs    == millis
                        epochSec == CorrectedEpoch(Head(rxq).secs, call.beginWaitMs, nowMs)
                    IN  /\ sysOfs' = U32Sub(epochSec, U32(upSec))
                        /\ rtcOfs' = IF m_pUtcSetCallback THEN U32Sub(epochSec, U32(upSec))
                                      ELSE rtcOfs
                        /\ lastMs' = nowMs
                        /\ hadSync' = TRUE
                        /\ m_UsingNetworkTime' = TRUE
                        /\ Return([call EXCEPT !.path = "reply", !.nowMs = nowMs,
                                               !.pktReq = Head(rxq).req,
                                               !.pktSecs = Head(rxq).secs,
                                               !.ret = epochSec, !.setCbCalls = 1,
                                               !.setCbArg = epochSec])
               ELSE UNCHANGED <<sysOfs, rtcOfs, lastMs, hadSync, m_UsingNetworkTime,
                                pc, call, uLast>>
    /\ UNCHANGED <<millis, upSec, upFrac, ticks, m_MinNtpRateSec, lastMsInit, connected,
                   sent, inflight, m_pUtcGetCallback, m_pUtcSetCallback, notUdpVars>>

\* SetMinNtpRate(r): "m_MinNtpRateSec = r >= MIN_NTP_UPDATE_SEC ? r : MIN_NTP_UPDATE_SEC;"
SetMinNtpRate(r) ==
    /\ pc = "idle"
    /\ m_MinNtpRateSec' = IF U32Leq(U32(MIN_NTP_UPDATE_SEC), r) THEN r
                          ELSE U32(MIN_NTP_UPDATE_SEC)
    /\ uLast' = Stale(uLast)
    /\ UNCHANGED <<clockVars, lastMs, lastMsInit, hadSync, connected, pc, call,
                   sent, inflight, rxq, m_UsingNetworkTime, m_pUtcGetCallback,
                   m_pUtcSetCallback, notUdpVars>>

\* SetUtcGetCallback(func) of the UDP based implementation: NULL installs
\* DefaultUtcGetCallback, which returns now().
UdpSetUtcGetCallback(func) ==
    /\ pc = "idle"
    /\ m_pUtcGetCallback' = func
    /\ uLast' = Stale(uLast)
    /\ UNCHANGED <<clockVars, m_MinNtpRateSec, lastMs, lastMsInit, hadSync, connected,
                   pc, call, sent, inflight, rxq, m_UsingNetworkTime,
                   m_pUtcSetCallback, notUdpVars>>

\* SetUtcSetCallback(func) of the UDP based implementation: NULL installs
\* DefaultUtcSetCallback, which calls setTime(t).
UdpSetUtcSetCallback(func) ==
    /\ pc = "idle"
    /\ m_pUtcSetCallback' = func
    /\ uLast' = Stale(uLast)
    /\ UNCHANGED <<clockVars, m_MinNtpRateSec, lastMs, lastMsInit, hadSync, connected,
                   pc, call, sent, inflight, rxq, m_UsingNetworkTime,
                   m_pUtcGetCallback, notUdpVars>>

\* autoConnect(): "WiFiManager::autoConnect(...); return IsConnected();"
autoConnect(ok) ==
    /\ pc = "idle"
    /\ ~connected
    /\ connected' = ok
    /\ uLast' = Stale(uLast)
    /\ UNCHANGED <<clockVars, m_MinNtpRateSec, lastMs, lastMsInit, hadSync, pc, call,
                   sent, inflight, rxq, m_UsingNetworkTime, m_pUtcGetCallback,
                   m_pUtcSetCallback, notUdpVars>>

\* The WiFi connection is lost: getLastConxResult() is no longer WL_CONNECTED.
ConnectionLost ==
    /\ pc = "idle"
    /\ connected
    /\ connected' = FALSE
    /\ uLast' = Stale(uLast)
    /\ UNCHANGED <<clockVars, m_MinNtpRateSec, lastMs, lastMsInit, hadSync, pc, call,
                   sent, inflight, rxq, m_UsingNetworkTime, m_pUtcGetCallback,
                   m_pUtcSetCallback, notUdpVars>>

\* A datagram reaches the socket: a reply that was on its way, or a short one.
\* The call in progress notes a full size packet that arrives while its wait
\* window is open.
Deliver(p) ==
    /\ Len(rxq) < MaxRxq
    /\ rxq' = Append(rxq, p)
    /\ inflight' = inflight \ {p}
    /\ call' = IF pc = "wait" /\ p.size >= NTP_PACKET_SIZE
                  /\ WindowOpen(millis, call.beginWaitMs)
               THEN [call EXCEPT !.bigArrived = TRUE] ELSE call
    /\ uLast' = Stale(uLast)
    /\ UNCHANGED <<clockVars, m_MinNtpRateSec, lastMs, lastMsInit, hadSync, connected,
                   pc, sent, m_UsingNetworkTime, m_pUtcGetCallback,
                   m_pUtcSetCallback, notUdpVars>>

\* Time passes: between calls, or inside the wait loop while it has neither a
\* packet to parse nor a closed window to leave by.
TickUdp(d) ==
    /\ \/ pc = "idle"
       \/ pc = "wait" /\ rxq = <<>> /\ WindowOpen(millis, call.beginWaitMs)
    /\ ticks < MaxUdpTicks
    /\ Advance(d)
    /\ uLast' = Stale(uLast)
    /\ UNCHANGED <<m_MinNtpRateSec, lastMs, lastMsInit, hadSync, connected, pc, call,
                   sent, inflight, rxq, m_UsingNetworkTime, m_pUtcGetCallback,
                   m_pUtcSetCallback, notUdpVars>>

NextUdp ==
    \/ GetUtcTime
    \/ process
    \/ DrainAndSend
    \/ WaitForReply
    \/ \E r \in UdpRateInputs : SetMinNtpRate(U32(r))
    \/ \E func \in BOOLEAN : UdpSetUtcGetCallback(func)
    \/ \E func \in BOOLEAN : UdpSetUtcSetCallback(func)
    \/ \E ok \in BOOLEAN : autoConnect(ok)
    \/ ConnectionLost
    \/ \E p \in inflight \cup {ShortPacket} : Deliver(p)
    \/ \E d \in UdpTickSteps : TickUdp(d)

SpecUdp == InitUdp /\ [][NextUdp]_vars

-----------------------------------------------------------------------------
(***************************************************************************)
(* Properties of the UDP based GetUtcTime() and process() (SpecUdp).       *)
(***************************************************************************)

\* GetUtcTime() has emitted a request exactly when it is waiting or has
\* returned from the wait, and a call in progress exists exactly when the
\* function is not idle.
UdpShape ==
    /\ pc \in {"idle", "drain", "wait"}
    /\ (pc = "idle") = (call = NoCall)
    /\ (pc = "wait") => call.sent
    /\ uLast.fresh => (uLast.sent = (uLast.path \in {"reply", "timeout"}))
    /\ Len(rxq) <= MaxRxq

\* The elapsed time deltaMs is less than rateSec seconds, the product with
\* 1000 taken without wrap-around: from 4294968 s on it exceeds every
\* uint32_t number of milliseconds.
BelowInterval(deltaMs, rateSec) ==
    IF U32Leq(U32(4294968), rateSec) THEN TRUE
    ELSE U32Less(deltaMs, U32MulK(rateSec, MS_PER_SEC))

\* What m_pUtcGetCallback() returns now: the user's clock, or now().
FallbackTime == IF m_pUtcGetCallback THEN UdpRtcNow ELSE now

\* The elapsed wait of the last completed call, in milliseconds.
ElapsedWait == U32ToNat(U32Sub(uLast.nowMs, uLast.beginWaitMs))

\* n milliseconds rounded to the nearest second.
NearestSecond(n) == IF n % 1000 >= 500 THEN n \div 1000 + 1 ELSE n \div 1000

\* C1: of two consecutive GetUtcTime() calls that begin less than the minimum
\* sync interval (m_MinNtpRateSec) apart, at most one emits an NTP request,
\* whatever the outcome of the first.
C1_Original ==
    (uLast.fresh /\ uLast.prevCall /\ BelowInterval(uLast.sincePrev, uLast.rate))
        => ~(uLast.prevSent /\ uLast.sent)

\* C2: when GetUtcTime() has emitted a request and no packet of at least
\* NTP_PACKET_SIZE bytes arrives within UDP_TIMEOUT_MS, the call clears
\* m_UsingNetworkTime, leaves the system clock and the set-callback's clock
\* alone, does not invoke the set-callback, and returns the get-callback's value.
C2_TimeoutFallback ==
    (uLast.fresh /\ uLast.sent /\ ~uLast.bigArrived)
        => /\ uLast.path = "timeout"
           /\ ~m_UsingNetworkTime
           /\ sysOfs = uLast.preSysOfs
           /\ rtcOfs = uLast.preRtcOfs
           /\ uLast.setCbCalls = 0
           /\ uLast.ret = FallbackTime

\* A call timed out while the flag was set and a user get-callback installed.
C2_Witness ==
    /\ uLast.fresh
    /\ uLast.path = "timeout"
    /\ uLast.preUsing
    /\ m_pUtcGetCallback
    /\ uLast.ret = UdpRtcNow

\* C3: when a reply arrives within the wait window, one corrected epoch value
\* (reply seconds minus SEVENTY_YEARS, plus the elapsed wait rounded to the
\* nearest second) is written to the system clock, passed to the set-callback
\* exactly once and returned; m_UsingNetworkTime becomes true and lastMs
\* becomes the time at which the reply was processed.
C3_ReplySetsClock ==
    (uLast.fresh /\ uLast.sent /\ uLast.bigArrived)
        => LET expected == U32Add(U32Sub(uLast.pktSecs, SEVENTY_YEARS),
                                  U32(NearestSecond(ElapsedWait)))
           IN  /\ uLast.path = "reply"
               /\ uLast.ret = expected
               /\ now = expected
               /\ uLast.setCbCalls = 1
               /\ uLast.setCbArg = expected
               /\ m_pUtcSetCallback => UdpRtcNow = expected
               /\ m_UsingNetworkTime
               /\ uLast.nowMs = millis
               /\ lastMs = millis

\* A reply was used half a second into the wait, with a user set-callback
\* installed, by a call that found the flag cleared.
C3_Witness ==
    /\ uLast.fresh
    /\ uLast.path = "reply"
    /\ ElapsedWait = 500
    /\ m_pUtcSetCallback
    /\ ~uLast.preUsing
    /\ uLast.ret = U32Add(U32Sub(uLast.pktSecs, SEVENTY_YEARS), U32(1))

\* C4: a GetUtcTime() call made while not connected, or less than the minimum
\* sync interval after the last successful sync, emits no NTP request and
\* returns the get-callback's value (the system clock when no user callback
\* is installed).
C4_Original ==
    (/\ uLast.fresh
     /\ \/ ~uLast.startConnected
        \/ uLast.hadSync /\ BelowInterval(uLast.sinceSync, uLast.rate))
        => /\ ~uLast.sent
           /\ uLast.path = "limited"
           /\ uLast.ret = FallbackTime

\* C6: the GetUtcTime() call that process() makes when a connection has just
\* been made emits an NTP request, even when less than the minimum sync
\* interval has elapsed since the last successful sync.
C6_Original ==
    (uLast.fresh /\ uLast.caller = "process") => uLast.sent

\* C26: a reply to an earlier request whose wait already timed out is never
\* accepted as the answer to a later request: whenever GetUtcTime() returns
\* network time, the packet it used answers the request emitted in that call.
C26_Original ==
    (uLast.fresh /\ uLast.path = "reply") => uLast.pktReq = uLast.reqId

-----------------------------------------------------------------------------
(***************************************************************************)
(* Init() and the configuration portal's SaveParamCallback() (SpecApp).    *)
(***************************************************************************)

UTC_2023_START == 1672531200

\* C's integer division, which truncates toward zero (b > 0).
CDiv(a, b) == IF a >= 0 THEN a \div b ELSE 0 - ((0 - a) \div b)

\* abs()
Abs(a) == IF a >= 0 THEN a ELSE 0 - a

\* snprintf(..., "%s%+01d:%01d", abbrev, 0 - ofst / 60, abs(ofst) % 60): a
\* zone name followed by a signed hour count and a minute count.
TzField(abbrev, ofst) ==
    [abbrev |-> abbrev, hours |-> 0 - CDiv(ofst, 60), minutes |-> Abs(ofst) % 60]

\* snprintf(..., ",M%d.%d.%d/%d", month, week, dow, hour)
TzRule(r) == [month |-> r.month, week |-> r.week, dow |-> r.dow, hour |-> r.hour]

\* WiFiTimeManager::GetTimezoneString(): the POSIX TZ string for the
\* parameters p, as its fields.
GetTimezoneString(p) ==
    IF p.m_UseDst
    THEN [std |-> TzField(p.m_DstEndRule.abbrev, p.m_TzOfst), useDst |-> TRUE,
          dst |-> TzField(p.m_DstStartRule.abbrev, p.m_TzOfst + p.m_DstOfst),
          start |-> TzRule(p.m_DstStartRule), end |-> TzRule(p.m_DstEndRule)]
    ELSE [std |-> TzField(p.m_DstEndRule.abbrev, p.m_TzOfst), useDst |-> FALSE]

\* The JSON document that UpdateWebPage() puts into the Setup page.
WebPageJson(p) ==
    [TIMEZONE |-> p.m_TzOfst, USE_DST |-> p.m_UseDst,
     DST_START_WEEK |-> p.m_DstStartRule.week, DST_START_DOW |-> p.m_DstStartRule.dow,
     DST_START_MONTH |-> p.m_DstStartRule.month, DST_START_HOUR |-> p.m_DstStartRule.hour,
     DST_START_OFFSET |-> p.m_DstOfst,
     DST_END_WEEK |-> p.m_DstEndRule.week, DST_END_DOW |-> p.m_DstEndRule.dow,
     DST_END_MONTH |-> p.m_DstEndRule.month, DST_END_HOUR |-> p.m_DstEndRule.hour,
     TZ_ABBREVIATION |-> p.m_DstEndRule.abbrev, DST_ABBREVIATION |-> p.m_DstStartRule.abbrev,
     NTP_ADDRESS |-> p.m_NtpAddr]

\* AP names and passwords offered to Init().
ApNames == {"NULL", "", "AP"}

ApPasswords == {"password"}

InitApp ==
    /\ m_Params = DefaultParams
    /\ nvsBlob \in InitialBlobs
    /\ nvsOther = FALSE
    /\ wifiCreds = FALSE
    /\ last = NoOp
    /\ prev = NoOp
    /\ BootClock
    /\ SntpConstructed
    /\ UdpConstructed
    /\ AppConstructed

\* UpdateWebPage() calling the callback without a look at it.
WebCallbackCalls_Unguarded(hook) == 1

\* UpdateWebPage(): "if (m_pUpdateWebPageCallback != NULL)
\* { m_pUpdateWebPageCallback(WebPageString, MAX_WEB_PAGE_SIZE - 1); }", as
\* the number of calls made.
WebCallbackCalls(hook) == IF hook THEN 1 ELSE 0

\* "(pApName == NULL) || (*pApName == '\0')"
InvalidApName(pApName) == pApName = "NULL" \/ pApName = ""

\* Init() going on whatever Save() returned.
InitProceeds_IgnoresSave(restored, saved) == TRUE

\* "if (!Restore()) { if (!Save()) { return false; } }"
InitProceeds(restored, saved) == restored \/ saved

\* WiFiTimeManager::Init(pApName, pApPassword, setupButton); putRet is what
\* Preferences::putBytes() returns if Save() calls it.
Init(pApName, pApPassword, putRet) ==
    LET restored  == RestoreAccepts(nvsBlob)
        params    == IF restored THEN nvsBlob.data ELSE m_Params
        needWrite == ~restored /\ SaveNeedsWrite(nvsBlob, params)
        saved     == IF needWrite THEN SaveResult(putRet) ELSE TRUE
        valid     == ~InvalidApName(pApName)
        proceeds  == valid /\ InitProceeds(restored, ~restored /\ saved)
        useCb     == proceeds /\ m_pUtcGetCallback
    IN  /\ needWrite \/ putRet = 0
        /\ valid \/ putRet = 0
        /\ m_UsingNetworkTime' = FALSE
        /\ wifiMode' = "WIFI_STA"
        /\ sntpInited' = TRUE
        /\ m_pApName' = IF valid THEN pApName ELSE m_pApName
        /\ m_pApPassword' = IF valid THEN pApPassword ELSE m_pApPassword
        /\ m_Params' = IF valid THEN params ELSE m_Params
        /\ nvsBlob' = IF valid /\ needWrite /\ putRet = SizeofTimeParameters
                      THEN Blob(SizeofTimeParameters, params) ELSE nvsBlob
        /\ webPage' = IF proceeds THEN WebPageJson(params) ELSE webPage
        /\ hLast' = [op |-> "Init",
                     webCalls |-> IF proceeds THEN WebCallbackCalls(m_pUpdateWebPageCallback)
                                  ELSE 0]
        /\ tzEnv' = IF proceeds THEN GetTimezoneString(params) ELSE tzEnv
        /\ sysOfs' = IF useCb THEN RtcNow - upSec
                     ELSE IF proceeds THEN UTC_2023_START - upSec ELSE sysOfs
        /\ m_LastUpdateMs' = IF useCb THEN millis ELSE m_LastUpdateMs
        /\ sLast' = [SNoOp EXCEPT !.op = "Init", !.force = TRUE, !.cbInvoked = useCb,
                                  !.ret = IF useCb THEN RtcNow ELSE 0,
                                  !.preUsing = m_UsingNetworkTime]
        /\ last' = OpRec("Init", proceeds, valid /\ needWrite, putRet)
        /\ UNCHANGED prev
        /\ iLast' = [calls |-> 1 - iLast.calls, name |-> pApName, ret |-> proceeds,
                     restoreCalls |-> IF valid THEN 1 ELSE 0,
                     restoreRet |-> valid /\ restored,
                     saveCalls |-> IF valid /\ ~restored THEN 1 ELSE 0,
                     saveRet |-> valid /\ ~restored /\ saved]
        /\ UNCHANGED auxVars
        /\ UNCHANGED <<nvsOther, wifiCreds, millis, upSec, upFrac, ticks, rtcOfs,
                       m_MinNtpRateMs, m_pUtcGetCallback, m_pUtcSetCallback, sntpStarted,
                       udpVars, m_pSaveParamsCallback, pLast, tmLast,
                       m_pUpdateWebPageCallback>>

WK_MIN == 1

WK_MAX == 5

DOW_MIN == 0

DOW_MAX == 6

MONTH_MIN == 1

MONTH_MAX == 12

HOUR_MIN == 0

HOUR_MAX == 23

\* constrain() without its test against the upper limit.
Constrain_NoUpper(v, lo, hi) == IF v < lo THEN lo ELSE v

\* constrain(v, lo, hi) with the int v converted to uint32_t: a negative v is
\* a number above hi.
Constrain(v, lo, hi) ==
    IF v < 0 THEN hi ELSE IF v < lo THEN lo ELSE IF v > hi THEN hi ELSE v

\* The Southern hemisphere form: Sydney, DST from the first Sunday of October
\* to the first Sunday of April.
SydneyForm ==
    [timezoneOffset |-> 600, dstOffset |-> 60, useDstField |-> "true",
     dstEndString |-> "AEST", dstStartString |-> "AEDT",
     weekNumber1 |-> 1, dayOfWeek1 |-> 0, month1 |-> 10, hour1 |-> 2,
     weekNumber2 |-> 1, dayOfWeek2 |-> 0, month2 |-> 4, hour2 |-> 3,
     ntpServerAddr |-> "pool.ntp.org"]

\* A form without DST and with numbers outside the selectable ranges.
OddForm ==
    [timezoneOffset |-> 0, dstOffset |-> 30, useDstField |-> "false",
     dstEndString |-> "GMT", dstStartString |-> "BST",
     weekNumber1 |-> 0, dayOfWeek1 |-> 7, month1 |-> 13, hour1 |-> 24,
     weekNumber2 |-> -1, dayOfWeek2 |-> -1, month2 |-> 0, hour2 |-> -1,
     ntpServerAddr |-> "time.nist.gov"]

\* The form that holds the default values.
DefaultForm ==
    [timezoneOffset |-> DFLT_TZ_OFST, dstOffset |-> DFLT_DST_OFST, useDstField |-> "true",
     dstEndString |-> "EST", dstStartString |-> "EDT",
     weekNumber1 |-> 2, dayOfWeek1 |-> 0, month1 |-> 3, hour1 |-> 2,
     weekNumber2 |-> 1, dayOfWeek2 |-> 0, month2 |-> 11, hour2 |-> 2,
     ntpServerAddr |-> "time.nist.gov"]

\* Submissions offered to the portal.
Forms == {DefaultForm, SydneyForm, OddForm}

\* The setter calls of SaveParamCallback() applied to the parameters p; the
\* strings offered fit their fields, so strncpy() copies them whole.
SetFields(p, f) ==
    [p EXCEPT !.m_TzOfst = f.timezoneOffset,
              !.m_UseDst = (f.useDstField = "true"),
              !.m_DstOfst = DstOfstFor(f.dstOffset),
              !.m_NtpAddr = f.ntpServerAddr,
              !.m_DstStartRule = [abbrev |-> f.dstStartString,
                                  week |-> Constrain(f.weekNumber1, WK_MIN, WK_MAX),
                                  dow |-> Constrain(f.dayOfWeek1, DOW_MIN, DOW_MAX),
                                  month |-> Constrain(f.month1, MONTH_MIN, MONTH_MAX),
                                  hour |-> Constrain(f.hour1, HOUR_MIN, HOUR_MAX),
                                  offset |-> f.timezoneOffset + f.dstOffset],
              !.m_DstEndRule = [abbrev |-> f.dstEndString,
                                week |-> Constrain(f.weekNumber2, WK_MIN, WK_MAX),
                                dow |-> Constrain(f.dayOfWeek2, DOW_MIN, DOW_MAX),
                                month |-> Constrain(f.month2, MONTH_MIN, MONTH_MAX),
                                hour |-> Constrain(f.hour2, HOUR_MIN, HOUR_MAX),
                                offset |-> f.timezoneOffset]]

\* The state that SaveParamCallback() works on, before its first statement.
PortalEntry ==
    [params |-> m_Params, blob |-> nvsBlob, tz |-> tzEnv, page |-> webPage,
     steps |-> <<>>, seenParams |-> "none", seenTz |-> "none", seenPage |-> "none"]

\* One statement group of SaveParamCallback() applied to the state st.
PortalStep(name, st, f, putRet) ==
    LET done == [st EXCEPT !.steps = Append(st.steps, name)]
    IN  CASE name = "SetFields" -> [done EXCEPT !.params = SetFields(st.params, f)]
          [] name = "Save" ->
                [done EXCEPT !.blob = IF SaveNeedsWrite(st.blob, st.params)
                                         /\ putRet = SizeofTimeParameters
                                      THEN Blob(SizeofTimeParameters, st.params)
                                      ELSE st.blob]
          [] name = "UpdateTimezoneRules" -> [done EXCEPT !.tz = GetTimezoneString(st.params)]
          [] name = "UpdateWebPage" -> [done EXCEPT !.page = WebPageJson(st.params)]
          [] name = "UserCallback" ->
                IF m_pSaveParamsCallback
                THEN [done EXCEPT !.seenParams = st.params, !.seenTz = st.tz,
                                  !.seenPage = st.page]
                ELSE st

\* SaveParamCallback() returning as soon as Save() has failed.
RECURSIVE RunPortalSteps_StopOnSaveFailure(_, _, _, _)
RunPortalSteps_StopOnSaveFailure(names, st, f, putRet) ==
    IF names = <<>> THEN st
    ELSE IF Head(names) = "Save" /\ SaveNeedsWrite(st.blob, st.params)
                                /\ putRet # SizeofTimeParameters
         THEN PortalStep("Save", st, f, putRet)
         ELSE RunPortalSteps_StopOnSaveFailure(Tail(names),
                                               PortalStep(Head(names), st, f, putRet),
                                               f, putRet)

RECURSIVE RunPortalSteps(_, _, _, _)
RunPortalSteps(names, st, f, putRet) ==
    IF names = <<>> THEN st
    ELSE RunPortalSteps(Tail(names), PortalStep(Head(names), st, f, putRet), f, putRet)

\* The user's callback invoked before the rules and the page are updated.
SaveParamCallbackSteps_CallbackEarly ==
    <<"SetFields", "Save", "UserCallback", "UpdateTimezoneRules", "UpdateWebPage">>

\* The statements of SaveParamCallback() in program order.
SaveParamCallbackSteps ==
    <<"SetFields", "Save", "UpdateTimezoneRules", "UpdateWebPage", "UserCallback">>

\* WiFiTimeManager::SaveParamCallback(), run by the WiFiManager when the user
\* submits the form f; putRet is what Preferences::putBytes() returns.
SaveParamCallback(f, putRet) ==
    LET st == RunPortalSteps(SaveParamCallbackSteps, PortalEntry, f, putRet)
    IN  /\ m_Params' = st.params
        /\ nvsBlob' = st.blob
        /\ tzEnv' = st.tz
        /\ webPage' = st.page
        /\ hLast' = [op |-> "SaveParamCallback",
                     webCalls |-> WebCallbackCalls(m_pUpdateWebPageCallback)]
        /\ pLast' = [calls |-> 1 - pLast.calls, steps |-> st.steps,
                     seenParams |-> st.seenParams, seenTz |-> st.seenTz,
                     seenPage |-> st.seenPage]
        /\ last' = OpRec("SaveParamCallback", TRUE, SaveNeedsWrite(nvsBlob, st.params),
                         putRet)
        /\ UNCHANGED prev
        /\ UNCHANGED auxVars
        /\ UNCHANGED <<nvsOther, wifiCreds, clockVars, sntpVars, udpVars, wifiMode,
                       sntpInited, m_pApName, m_pApPassword, m_pSaveParamsCallback, iLast,
                       tmLast, m_pUpdateWebPageCallback>>

\* setSaveParamsCallback(func); func may be NULL.
setSaveParamsCallback(func) ==
    /\ m_pSaveParamsCallback' = func
    /\ hLast' = [op |-> "setSaveParamsCallback", webCalls |-> 0]
    /\ last' = OpRec("setSaveParamsCallback", TRUE, FALSE, 0)
    /\ UNCHANGED prev
    /\ UNCHANGED auxVars
    /\ UNCHANGED <<m_Params, nvsBlob, nvsOther, wifiCreds, clockVars, sntpVars, udpVars,
                   wifiMode, sntpInited, m_pApName, m_pApPassword, tzEnv, webPage, iLast,
                   pLast, tmLast, m_pUpdateWebPageCallback>>

NextApp ==
    \/ \E n \in ApNames, pw \in ApPasswords, putRet \in PutBytesReturns : Init(n, pw, putRet)
    \/ \E f \in Forms, putRet \in PutBytesReturns : SaveParamCallback(f, putRet)
    \/ \E func \in BOOLEAN : setSaveParamsCallback(func)
    \/ \E func \in BOOLEAN : SetUtcGetCallback(func)

SpecApp == InitApp /\ [][NextApp]_vars

-----------------------------------------------------------------------------
(***************************************************************************)
(* Properties of Init() and of SaveParamCallback() (SpecApp).              *)
(***************************************************************************)

\* C11: for a non-empty AP name, Init() calls Restore() and, only if that
\* fails, Save() once; it returns false if both fail, and whenever it returns
\* true the saved state is byte-identical to the working parameters.
C11_InitPersists ==
    (last.op = "Init" /\ ~InvalidApName(iLast.name))
        => /\ iLast.restoreCalls = 1
           /\ iLast.restoreRet = (/\ last.preBlob.size = SizeofTimeParameters
                                  /\ last.preBlob.data.m_Version = TP_VERSION)
           /\ iLast.saveCalls = (IF iLast.restoreRet THEN 0 ELSE 1)
           /\ (~iLast.restoreRet /\ ~iLast.saveRet) => ~iLast.ret
           /\ iLast.ret => nvsBlob = Blob(SizeofTimeParameters, m_Params)

\* Init() returned true after a failed Restore() and a Save() that wrote.
C11_Witness ==
    /\ last.op = "Init"
    /\ iLast.ret
    /\ ~iLast.restoreRet
    /\ iLast.saveCalls = 1
    /\ last.wrote
    /\ last.preBlob.size # SizeofTimeParameters
    /\ nvsBlob = Blob(SizeofTimeParameters, m_Params)

\* C12: Init() with a NULL or empty AP name returns false and has mutated
\* nothing: m_UsingNetworkTime, the WiFi mode, the SNTP state, the stored AP
\* name and password, the working parameters and the saved state are as before.
C12_Original ==
    [][(iLast' # iLast /\ InvalidApName(iLast'.name))
         => /\ ~iLast'.ret
            /\ UNCHANGED <<m_UsingNetworkTime, wifiMode, sntpInited, m_pApName,
                           m_pApPassword, m_Params, nvsBlob>>]_vars

\* C16: each SaveParamCallback() runs, in this order and once each, the field
\* updates, Save(), UpdateTimezoneRules(), UpdateWebPage() and then the user's
\* callback if one is set; the callback sees the submitted parameters and the
\* timezone rules and Setup page derived from them.
C16_PortalOrder ==
    last.op = "SaveParamCallback"
        => /\ pLast.steps = <<"SetFields", "Save", "UpdateTimezoneRules", "UpdateWebPage">>
                            \o (IF m_pSaveParamsCallback THEN <<"UserCallback">> ELSE <<>>)
           /\ tzEnv = GetTimezoneString(m_Params)
           /\ webPage = WebPageJson(m_Params)
           /\ m_pSaveParamsCallback
                => /\ pLast.seenParams = m_Params
                   /\ pLast.seenTz = GetTimezoneString(m_Params)
                   /\ pLast.seenPage = WebPageJson(m_Params)

\* The user's callback ran after a submission that changed the parameters and
\* with them the timezone rules.
C16_Witness ==
    /\ last.op = "SaveParamCallback"
    /\ m_pSaveParamsCallback
    /\ pLast.seenParams = m_Params
    /\ m_Params # last.pre
    /\ pLast.seenTz # GetTimezoneString(last.pre)
    /\ m_Params.m_TzOfst = SydneyForm.timezoneOffset

-----------------------------------------------------------------------------
(***************************************************************************)
(* Properties of SetMinNtpRateSec() (SpecSntp).                            *)
(***************************************************************************)
\* The product a * k of a 32-bit a and a small k, not reduced to 32 bits: the
\* upper part may exceed 16 bits.
WideMulK(a, k) ==
    LET lo == a.lo * k
    IN  [hi |-> a.hi * k + (lo \div Half), lo |-> lo % Half]

\* C17: after SetMinNtpRateSec(n), for every 32-bit unsigned n, the stored
\* minimum interval is max(n * 1000, 15000) ms computed without wraparound: it
\* is never below 15000 ms and never shorter than the requested n seconds.
C17_Original ==
    sLast.op = "SetMinNtpRateSec"
        => /\ ~U32Less(m_MinNtpRateMs, U32(MIN_NTP_UPDATE_MS))
           /\ ~U32Less(m_MinNtpRateMs, WideMulK(sLast.arg, MS_PER_SEC))
           /\ m_MinNtpRateMs = (IF U32Less(WideMulK(sLast.arg, MS_PER_SEC),
                                           U32(MIN_NTP_UPDATE_MS))
                                THEN U32(MIN_NTP_UPDATE_MS)
                                ELSE WideMulK(sLast.arg, MS_PER_SEC))

-----------------------------------------------------------------------------
(***************************************************************************)
(* Termination of the UDP based GetUtcTime() (SpecUdpLive).  The program   *)
(* keeps executing the loop it is in and the millisecond clock keeps       *)
(* advancing while the program waits; packets arrive as the network        *)
(* pleases.                                                                *)
(***************************************************************************)
\* The largest number of NTP requests sent in a run of SpecUdpLive.
MaxCalls == 2

\* The advance of millis() seen by successive tests of the wait loop.
WaitStepMs == 500

\* Time passes while the wait loop of GetUtcTime() runs:
\* "while ((millis() - beginWaitMs) < UDP_TIMEOUT_MS)" reads a later millis().
ClockInLoop ==
    /\ pc = "wait"
    /\ WindowOpen(millis, call.beginWaitMs)
    /\ millis' = U32Add(millis, U32(WaitStepMs))
    /\ upSec' = upSec + ((upFrac + WaitStepMs) \div MS_PER_SEC)
    /\ upFrac' = (upFrac + WaitStepMs) % MS_PER_SEC
    /\ uLast' = Stale(uLast)
    /\ UNCHANGED <<ticks, sysOfs, rtcOfs, m_MinNtpRateSec, lastMs, lastMsInit, hadSync,
                   connected, pc, call, sent, inflight, rxq, m_UsingNetworkTime,
                   m_pUtcGetCallback, m_pUtcSetCallback, notUdpVars>>

NextUdpLive ==
    \/ sent < MaxCalls /\ GetUtcTime
    \/ sent < MaxCalls /\ process
    \/ DrainAndSend
    \/ WaitForReply
    \/ \E p \in inflight \cup {ShortPacket} : Deliver(p)
    \/ ClockInLoop

SpecUdpLive ==
    /\ InitUdp
    /\ [][NextUdpLive]_vars
    /\ WF_vars(DrainAndSend)
    /\ WF_vars(WaitForReply)
    /\ WF_vars(ClockInLoop)

\* C18: every call of the UDP based GetUtcTime() returns, whatever packets
\* arrive (none, too short, stale, or arriving continuously), as long as the
\* millisecond clock advances.
C18_Original == (pc # "idle") ~> (pc = "idle")

\* Once the request is sent, the call returns: with a reply or at the timeout.
WaitLoopEnds == (pc = "wait") ~> (pc = "idle")

-----------------------------------------------------------------------------
(***************************************************************************)
(* Local time (SpecTz).  GetLocalTime() hands the UTC time to the C        *)
(* library's localtime_r(), which applies the POSIX TZ setting made from   *)
(* GetTimezoneString() by Init() and UpdateTimezoneRules().  The library   *)
(* is modelled as POSIX and newlib define it: an offset in the TZ setting  *)
(* counts west of Greenwich and its sign covers hours and minutes; a rule  *)
(* Mm.w.d/h names the d-th day of week w (5 is the last) of month m at h   *)
(* o'clock, the start in standard time and the end in daylight time.       *)
(***************************************************************************)
SECSPERMIN == 60

SECSPERHOUR == 3600

SECSPERDAY == 86400

DAYSPERWEEK == 7

EPOCH_YEAR == 1970

\* 1970-01-01 was a Thursday.
EPOCH_WDAY == 4

\* The years in which the instants of SpecTz lie.
TzYears == 2022..2024

isleap(y) == (y % 4 = 0 /\ y % 100 # 0) \/ y % 400 = 0

\* The number of days of month m (1..12) of year y.
MonthLength(y, m) ==
    IF m = 2 THEN (IF isleap(y) THEN 29 ELSE 28)
    ELSE IF m \in {4, 6, 9, 11} THEN 30 ELSE 31

RECURSIVE DaysBeforeMonth(_, _)
\* The number of days of year y before its month m.
DaysBeforeMonth(y, m) ==
    IF m = 1 THEN 0 ELSE DaysBeforeMonth(y, m - 1) + MonthLength(y, m - 1)

\* The number of days from 1970-01-01 to the first day of year y.
DaysBeforeYear(y) ==
    365 * (y - EPOCH_YEAR) + ((y - 1969) \div 4) - ((y - 1901) \div 100)
        + ((y - 1601) \div 400)

\* The UTC instant y-mo-d h:mi:s, in seconds since 1970.
Epoch(y, mo, d, h, mi, sec) ==
    (DaysBeforeYear(y) + DaysBeforeMonth(y, mo) + d - 1) * SECSPERDAY
        + h * SECSPERHOUR + mi * SECSPERMIN + sec

\* The year in which the instant t lies.
YearOf(t) ==
    CHOOSE y \in TzYears : /\ DaysBeforeYear(y) * SECSPERDAY <= t
                           /\ t < DaysBeforeYear(y + 1) * SECSPERDAY

\* The day, counted from 1970-01-01, that the rule r (month, week, dow) names
\* in year y: the first such weekday of the month plus week - 1 weeks, taken
\* back by a week when that falls out of the month.
RuleDay(y, r) ==
    LET days      == DaysBeforeYear(y) + DaysBeforeMonth(y, r.month)
        m_wday    == (EPOCH_WDAY + days) % DAYSPERWEEK
        wday_diff == IF r.dow - m_wday < 0 THEN r.dow - m_wday + DAYSPERWEEK
                     ELSE r.dow - m_wday
        m_day     == (r.week - 1) * DAYSPERWEEK + wday_diff
    IN  days + (IF m_day >= MonthLength(y, r.month) THEN m_day - DAYSPERWEEK ELSE m_day)

\* tzset() reading one "+h:m" or "-h:m" of the TZ setting: seconds west of
\* Greenwich.  "%+01d" writes the sign of the hour count, "+" for 0.
TzOffsetSec(field) ==
    IF field.hours < 0
    THEN 0 - ((0 - field.hours) * SECSPERHOUR + field.minutes * SECSPERMIN)
    ELSE field.hours * SECSPERHOUR + field.minutes * SECSPERMIN

\* tzset() on the TZ setting tz: the standard and the daylight offset (the
\* same when the setting names no daylight zone) and the two rules.
tzset(tz) ==
    IF tz.useDst
    THEN [std |-> TzOffsetSec(tz.std), dst |-> TzOffsetSec(tz.dst),
          start |-> tz.start, end |-> tz.end]
    ELSE [std |-> TzOffsetSec(tz.std), dst |-> TzOffsetSec(tz.std),
          start |-> [month |-> 1, week |-> 1, dow |-> 0, hour |-> 0],
          end |-> [month |-> 1, week |-> 1, dow |-> 0, hour |-> 0]]

\* The end of daylight time taken in standard time, as the start is.
tzcalc_limits_EndInStd(z, y) ==
    [start |-> RuleDay(y, z.start) * SECSPERDAY + z.start.hour * SECSPERHOUR + z.std,
     end   |-> RuleDay(y, z.end) * SECSPERDAY + z.end.hour * SECSPERHOUR + z.std]

\* The instants at which daylight time starts and ends in year y.
tzcalc_limits(z, y) ==
    [start |-> RuleDay(y, z.start) * SECSPERDAY + z.start.hour * SECSPERHOUR + z.std,
     end   |-> RuleDay(y, z.end) * SECSPERDAY + z.end.hour * SECSPERHOUR + z.dst]

\* Daylight time starting only after the start instant.
InDst_AfterStart(t, lim) ==
    IF lim.start < lim.end THEN t > lim.start /\ t < lim.end
    ELSE t > lim.start \/ t < lim.end

\* Whether the instant t lies in daylight time: between start and end when
\* the start comes first in the year, outside of end..start otherwise.
InDst(t, lim) ==
    IF lim.start < lim.end THEN t >= lim.start /\ t < lim.end
    ELSE t >= lim.start \/ t < lim.end

\* localtime_r(&utc, pTm) under the TZ setting tz.
localtime_r(utc, tz) ==
    LET z      == tzset(tz)
        isdst  == z.std # z.dst /\ InDst(utc, tzcalc_limits(z, YearOf(utc)))
        local  == utc - (IF isdst THEN z.dst ELSE z.std)
        year   == YearOf(local)
    IN  [op |-> "GetLocalTime", utc |-> utc, local |-> local,
         tm_year |-> year,
         tm_yday |-> (local \div SECSPERDAY) - DaysBeforeYear(year),
         tm_hour |-> (local % SECSPERDAY) \div SECSPERHOUR,
         tm_min |-> (local % SECSPERHOUR) \div SECSPERMIN,
         tm_sec |-> local % SECSPERMIN,
         tm_isdst |-> IF isdst THEN 1 ELSE 0,
         ret |-> "NULL"]

\* WiFiTimeManager::GetLocalTime(pTm):
\* "time_t utc = GetUtcTimeT(); return localtime_r(&utc, pTm);"
GetLocalTime ==
    /\ GetUtcTimeTBody(FALSE, "GetLocalTime")
    /\ tmLast' = localtime_r(sLast'.ret, tzEnv)
    /\ UNCHANGED <<millis, upSec, upFrac, ticks, rtcOfs, m_MinNtpRateMs,
                   m_pUtcGetCallback, m_pUtcSetCallback, sntpStarted, nvsVars, udpVars,
                   wifiMode, sntpInited, m_pApName, m_pApPassword, tzEnv, webPage,
                   m_pSaveParamsCallback, iLast, pLast, m_pUpdateWebPageCallback, hLast,
                   auxVars>>

\* "if (localTime.tm_isdst) pStr = GetDstAbbrev(); else pStr = GetTzAbbrev();"
ActiveAbbrev(p, isdst) ==
    IF isdst # 0 THEN p.m_DstStartRule.abbrev ELSE p.m_DstEndRule.abbrev

\* WiFiTimeManager::GetLocalTimezoneString(): GetLocalTime(&localTime), then
\* the abbreviation that goes with localTime.tm_isdst; ret is what it returns.
GetLocalTimezoneString ==
    /\ GetUtcTimeTBody(FALSE, "GetLocalTimezoneString")
    /\ tmLast' = [localtime_r(sLast'.ret, tzEnv) EXCEPT
                     !.op = "GetLocalTimezoneString",
                     !.ret = ActiveAbbrev(m_Params, localtime_r(sLast'.ret, tzEnv).tm_isdst)]
    /\ UNCHANGED <<millis, upSec, upFrac, ticks, rtcOfs, m_MinNtpRateMs,
                   m_pUtcGetCallback, m_pUtcSetCallback, sntpStarted, nvsVars, udpVars,
                   wifiMode, sntpInited, m_pApName, m_pApPassword, tzEnv, webPage,
                   m_pSaveParamsCallback, iLast, pLast, m_pUpdateWebPageCallback, hLast,
                   auxVars>>

\* settimeofday() with tv_sec = t, as the sketch's SetTime() and loop() call it.
settimeofday(t) ==
    /\ sysOfs' = t - upSec
    /\ sLast' = [SNoOp EXCEPT !.op = "settimeofday", !.preUsing = m_UsingNetworkTime]
    /\ UNCHANGED <<millis, upSec, upFrac, ticks, rtcOfs, m_LastUpdateMs, m_MinNtpRateMs,
                   m_UsingNetworkTime, m_pUtcGetCallback, m_pUtcSetCallback, sntpStarted,
                   notSntpVars>>

\* A form for Greenwich time with half an hour of daylight time, from the
\* last Sunday of March to the last Sunday of October.
HalfHourForm ==
    [timezoneOffset |-> 0, dstOffset |-> 30, useDstField |-> "true",
     dstEndString |-> "GMT", dstStartString |-> "BST",
     weekNumber1 |-> 5, dayOfWeek1 |-> 0, month1 |-> 3, hour1 |-> 1,
     weekNumber2 |-> 5, dayOfWeek2 |-> 0, month2 |-> 10, hour2 |-> 2,
     ntpServerAddr |-> "time.nist.gov"]

\* A form for a zone half an hour east of Greenwich without daylight time.
EastHalfHourForm ==
    [timezoneOffset |-> 30, dstOffset |-> 60, useDstField |-> "false",
     dstEndString |-> "XST", dstStartString |-> "XDT",
     weekNumber1 |-> 2, dayOfWeek1 |-> 0, month1 |-> 3, hour1 |-> 2,
     weekNumber2 |-> 1, dayOfWeek2 |-> 0, month2 |-> 11, hour2 |-> 2,
     ntpServerAddr |-> "time.nist.gov"]

\* The parameter sets of SpecTz: the defaults and what the portal stores for
\* the forms.
TzParams ==
    {DefaultParams}
        \cup {SetFields(DefaultParams, f) : f \in Forms \cup {HalfHourForm, EastHalfHourForm}}

\* Instants offered to settimeofday(): two seconds before each change of the
\* parameter sets in 2023, and one in winter and one in summer.
TzInstants ==
    { Epoch(2023, 3, 12, 6, 59, 58), Epoch(2023, 11, 5, 5, 59, 58),
      Epoch(2023, 9, 30, 15, 59, 58), Epoch(2023, 4, 1, 15, 59, 58),
      Epoch(2023, 3, 26, 0, 59, 58), Epoch(2023, 10, 29, 1, 29, 58),
      Epoch(2023, 1, 15, 12, 0, 0), Epoch(2023, 7, 15, 12, 0, 0) }

\* The state that a successful Init("AP", "password") leaves, for each
\* parameter set: it is saved, the TZ setting and the Setup page are made from
\* it, and the clock shows the start of 2023.
InitTz ==
    /\ m_Params \in TzParams
    /\ nvsBlob = Blob(SizeofTimeParameters, m_Params)
    /\ nvsOther = FALSE
    /\ wifiCreds = FALSE
    /\ last = NoOp
    /\ prev = NoOp
    /\ millis = U32(0)
    /\ upSec = 0
    /\ upFrac = 0
    /\ ticks = 0
    /\ sysOfs = UTC_2023_START
    /\ rtcOfs = NtpEpoch - RtcLag
    /\ SntpConstructed
    /\ UdpConstructed
    /\ wifiMode = "WIFI_STA"
    /\ sntpInited = TRUE
    /\ m_pApName = "AP"
    /\ m_pApPassword = "password"
    /\ tzEnv = GetTimezoneString(m_Params)
    /\ webPage = WebPageJson(m_Params)
    /\ m_pSaveParamsCallback = FALSE
    /\ iLast = [NoInit EXCEPT !.calls = 1, !.name = "AP", !.ret = TRUE,
                              !.restoreCalls = 1, !.restoreRet = TRUE]
    /\ pLast = NoPortal
    /\ tmLast = NoTm
    /\ m_pUpdateWebPageCallback = FALSE
    /\ hLast = [op |-> "Init", webCalls |-> 0]
    /\ AuxConstructed

NextTz ==
    \/ GetLocalTime
    \/ GetLocalTimezoneString
    \/ \E t \in TzInstants : settimeofday(t)
    \/ TickSntp(MS_PER_SEC)

SpecTz == InitTz /\ [][NextTz]_vars

\* The start of daylight time in year y as the parameters p describe it: the
\* rule's day and hour in standard time.
DstStartBoundary(p, y) ==
    RuleDay(y, p.m_DstStartRule) * SECSPERDAY + p.m_DstStartRule.hour * SECSPERHOUR
        - p.m_TzOfst * SECSPERMIN

\* The end of daylight time in year y as the parameters p describe it: the
\* rule's day and hour in daylight time.
DstEndBoundary(p, y) ==
    RuleDay(y, p.m_DstEndRule) * SECSPERDAY + p.m_DstEndRule.hour * SECSPERHOUR
        - (p.m_TzOfst + p.m_DstOfst) * SECSPERMIN

\* C19: with DST enabled and the rules re-derived, for any UTC instant t the
\* local offset equals base offset + DST delta if and only if t is at or after
\* that year's DST-start boundary and before its DST-end boundary, and equals
\* the base offset otherwise; an instant exactly at a boundary takes the
\* post-transition offset.
C19_Original ==
    (tmLast.op = "GetLocalTime" /\ m_Params.m_UseDst /\ tzEnv = GetTimezoneString(m_Params))
        => LET t == tmLast.utc
               y == YearOf(t)
           IN  tmLast.local - t
                   = IF t >= DstStartBoundary(m_Params, y) /\ t < DstEndBoundary(m_Params, y)
                     THEN (m_Params.m_TzOfst + m_Params.m_DstOfst) * SECSPERMIN
                     ELSE m_Params.m_TzOfst * SECSPERMIN

\* An offset in minutes that "%+01d:%01d" writes with its own sign: not one
\* of 1..59 minutes east.
WrittenWithSign(ofst) == ofst <= 0 \/ ofst >= 60

\* With DST enabled, and offsets that are written with their own sign, the
\* local offset is base offset + DST delta from the start boundary to the end
\* boundary, around the end of the year when the start comes after the end in
\* the year, and the base offset otherwise.
DstWindowEitherOrder ==
    (/\ tmLast.op = "GetLocalTime"
     /\ m_Params.m_UseDst
     /\ WrittenWithSign(m_Params.m_TzOfst)
     /\ WrittenWithSign(m_Params.m_TzOfst + m_Params.m_DstOfst))
        => LET t     == tmLast.utc
               y     == YearOf(t)
               start == DstStartBoundary(m_Params, y)
               end   == DstEndBoundary(m_Params, y)
           IN  tmLast.local - t
                   = IF (IF start < end THEN t >= start /\ t < end
                                        ELSE t >= start \/ t < end)
                     THEN (m_Params.m_TzOfst + m_Params.m_DstOfst) * SECSPERMIN
                     ELSE m_Params.m_TzOfst * SECSPERMIN

\* C20: with the default rules (EST -300 min, EDT +60 min, start 2nd Sunday of
\* March 02:00, end 1st Sunday of November 02:00), GetLocalTime() at UTC
\* 2023-03-12T06:59:59Z yields 01:59:59 with tm_isdst = 0 and at UTC
\* 2023-03-12T07:00:00Z yields 03:00:00 with tm_isdst = 1, so no local time
\* 02:xx is produced on that day.
C20_SpringForward ==
    (tmLast.op = "GetLocalTime" /\ m_Params = DefaultParams)
        => /\ tmLast.utc = Epoch(2023, 3, 12, 6, 59, 59)
                => /\ tmLast.tm_year = 2023
                   /\ tmLast.tm_yday = DaysBeforeMonth(2023, 3) + 11
                   /\ tmLast.tm_hour = 1
                   /\ tmLast.tm_min = 59
                   /\ tmLast.tm_sec = 59
                   /\ tmLast.tm_isdst = 0
           /\ tmLast.utc = Epoch(2023, 3, 12, 7, 0, 0)
                => /\ tmLast.tm_year = 2023
                   /\ tmLast.tm_yday = DaysBeforeMonth(2023, 3) + 11
                   /\ tmLast.tm_hour = 3
                   /\ tmLast.tm_min = 0
                   /\ tmLast.tm_sec = 0
                   /\ tmLast.tm_isdst = 1
           /\ (tmLast.tm_year = 2023 /\ tmLast.tm_yday = DaysBeforeMonth(2023, 3) + 11)
                => tmLast.tm_hour # 2

\* GetLocalTime() called with the default rules at 2023-03-12T07:00:00Z, one
\* second after the clock showed 06:59:59Z, gave 03:00:00 daylight time.
C20_Witness ==
    /\ tmLast.op = "GetLocalTime"
    /\ m_Params = DefaultParams
    /\ tmLast.utc = Epoch(2023, 3, 12, 7, 0, 0)
    /\ ticks = 2
    /\ sysOfs = Epoch(2023, 3, 12, 6, 59, 58)
    /\ tmLast.tm_hour = 3
    /\ tmLast.tm_isdst = 1

\* C21: with the same default rules, GetLocalTime() at UTC
\* 2023-11-05T05:59:59Z yields 01:59:59 with tm_isdst = 1 (EDT) and at UTC
\* 2023-11-05T06:00:00Z yields 01:00:00 with tm_isdst = 0 (EST).
C21_FallBack ==
    (tmLast.op = "GetLocalTime" /\ m_Params = DefaultParams)
        => /\ tmLast.utc = Epoch(2023, 11, 5, 5, 59, 59)
                => /\ tmLast.tm_year = 2023
                   /\ tmLast.tm_yday = DaysBeforeMonth(2023, 11) + 4
                   /\ tmLast.tm_hour = 1
                   /\ tmLast.tm_min = 59
                   /\ tmLast.tm_sec = 59
                   /\ tmLast.tm_isdst = 1
           /\ tmLast.utc = Epoch(2023, 11, 5, 6, 0, 0)
                => /\ tmLast.tm_year = 2023
                   /\ tmLast.tm_yday = DaysBeforeMonth(2023, 11) + 4
                   /\ tmLast.tm_hour = 1
                   /\ tmLast.tm_min = 0
                   /\ tmLast.tm_sec = 0
                   /\ tmLast.tm_isdst = 0

\* GetLocalTime() called with the default rules at 2023-11-05T06:00:00Z, two
\* seconds after the clock was set to 05:59:58Z, gave 01:00:00 standard time.
C21_Witness ==
    /\ tmLast.op = "GetLocalTime"
    /\ m_Params = DefaultParams
    /\ tmLast.utc = Epoch(2023, 11, 5, 6, 0, 0)
    /\ ticks = 2
    /\ sysOfs = Epoch(2023, 11, 5, 5, 59, 58)
    /\ tmLast.tm_hour = 1
    /\ tmLast.tm_isdst = 0

\* C22: when UseDst is false and the timezone rules have been re-derived, the
\* local offset equals the base offset at every instant and
\* GetLocalTimezoneString() returns the configured standard (non-DST)
\* abbreviation at every instant.
C22_Original ==
    (/\ tmLast.op \in {"GetLocalTime", "GetLocalTimezoneString"}
     /\ ~m_Params.m_UseDst
     /\ tzEnv = GetTimezoneString(m_Params))
        => /\ tmLast.local - tmLast.utc = m_Params.m_TzOfst * SECSPERMIN
           /\ tmLast.op = "GetLocalTimezoneString" => tmLast.ret = m_Params.m_DstEndRule.abbrev

\* With UseDst false no instant is in daylight time and
\* GetLocalTimezoneString() returns the standard abbreviation; the local
\* offset is the base offset when that is written with its own sign.
NoDstNoTransition ==
    (/\ tmLast.op \in {"GetLocalTime", "GetLocalTimezoneString"}
     /\ ~m_Params.m_UseDst)
        => /\ tmLast.tm_isdst = 0
           /\ tmLast.op = "GetLocalTimezoneString" => tmLast.ret = m_Params.m_DstEndRule.abbrev
           /\ WrittenWithSign(m_Params.m_TzOfst)
                => tmLast.local - tmLast.utc = m_Params.m_TzOfst * SECSPERMIN

-----------------------------------------------------------------------------
(***************************************************************************)
(* Properties of the setters (SpecNvs).                                    *)
(***************************************************************************)
\* C23: SetDstOfst(v) stores, for every signed 32-bit v, the member of
\* {30, 60} nearer to v: 30 when v <= 45 (including zero and negative values)
\* and 60 otherwise.
C23_Original ==
    last.op = "SetDstOfst"
        => m_Params.m_DstOfst = (IF last.arg <= 45 THEN 30 ELSE 60)

\* SetDstOfst(v) stores 30 for v in 0..45 and 60 for every other v, the
\* negative ones included.
DstOfstUnsigned ==
    last.op = "SetDstOfst"
        => m_Params.m_DstOfst = (IF 0 <= last.arg /\ last.arg <= 45 THEN 30 ELSE 60)

-----------------------------------------------------------------------------
(***************************************************************************)
(* The four user callbacks (SpecHooks): each is NULL after construction    *)
(* and may be set, or set back to NULL, at any time between operations.    *)
(***************************************************************************)
\* SetUpdateWebPageCallback(func); func may be NULL.
SetUpdateWebPageCallback(func) ==
    /\ m_pUpdateWebPageCallback' = func
    /\ hLast' = [op |-> "SetUpdateWebPageCallback", webCalls |-> 0]
    /\ UNCHANGED auxVars
    /\ UNCHANGED <<nvsVars, clockVars, sntpVars, udpVars, wifiMode, sntpInited, m_pApName,
                   m_pApPassword, tzEnv, webPage, m_pSaveParamsCallback, iLast, pLast,
                   tmLast>>

InitHooks ==
    /\ m_Params = DefaultParams
    /\ nvsBlob = NoBlob
    /\ nvsOther = FALSE
    /\ wifiCreds = FALSE
    /\ last = NoOp
    /\ prev = NoOp
    /\ BootClock
    /\ SntpConstructed
    /\ UdpConstructed
    /\ AppConstructed

\* The clock advance offered to SpecHooks, in milliseconds: four times the
\* default minimum interval.
HookTickSteps == {14400000}

\* The largest number of clock advances in a run of SpecHooks.
MaxHookTicks == 1

NextHooks ==
    \/ Init("AP", "password", SizeofTimeParameters)
    \/ SaveParamCallback(SydneyForm, SizeofTimeParameters)
    \/ \E func \in BOOLEAN : setSaveParamsCallback(func)
    \/ \E func \in BOOLEAN : SetUpdateWebPageCallback(func)
    \/ \E func \in BOOLEAN : SetUtcGetCallback(func)
    \/ \E func \in BOOLEAN : SetUtcSetCallback(func)
    \/ \E force \in BOOLEAN : GetUtcTimeT(force)
    \/ StartNewConnection
    \/ UtcSetCallback
    \/ \E d \in HookTickSteps : ticks < MaxHookTicks /\ TickSntp(d)

SpecHooks == InitHooks /\ [][NextHooks]_vars

\* C24: with any of the four user hooks (UTC get, UTC set, save-params,
\* update-web-page) unset or set to NULL, no operation ever invokes an unset
\* hook: GetUtcTimeT() returns the system clock instead, and UtcSetCallback,
\* SaveParamCallback and UpdateWebPage skip the call.
C24_NoUnsetHookInvoked ==
    /\ (sLast.op \in {"GetUtcTimeT", "StartNewConnection"} /\ ~m_pUtcGetCallback)
            => (~sLast.cbInvoked /\ sLast.ret = SysNow)
    /\ (sLast.op = "UtcSetCallback" /\ ~m_pUtcSetCallback) => ~sLast.cbInvoked
    /\ (last.op = "SaveParamCallback" /\ ~m_pSaveParamsCallback)
            => (\A i \in 1..Len(pLast.steps) : pLast.steps[i] # "UserCallback")
    /\ ~m_pUpdateWebPageCallback => hLast.webCalls = 0
    /\ (sLast.op = "Init" /\ ~m_pUtcGetCallback)
            => (~sLast.cbInvoked /\ (iLast.ret => SysNow = UTC_2023_START))

\* SaveParamCallback() ran with the save-params and web page callbacks set
\* back to NULL after having been set, and GetUtcTimeT(true) returned the
\* system clock with the get callback set back to NULL.
C24_Witness ==
    /\ last.op = "SaveParamCallback"
    /\ ~m_pSaveParamsCallback
    /\ ~m_pUpdateWebPageCallback
    /\ hLast.op = "SaveParamCallback"
    /\ sLast.op = "GetUtcTimeT"
    /\ sLast.force
    /\ ~m_pUtcGetCallback
    /\ SysNow # RtcNow
    /\ m_pUtcSetCallback
    /\ ticks > 0

-----------------------------------------------------------------------------
(***************************************************************************)
(* process() and autoConnect() of the SNTP implementation (SpecConn).      *)
(* connected is what IsConnected() returns: whether the connection result  *)
(* last recorded by WiFiManager is WL_CONNECTED.                           *)
(***************************************************************************)
\* The calls of StartNewConnection() made by process() when IsConnected()
\* returned pre before and WiFiManager::process() returns made.
ProcessStarts(pre, made) == IF ~pre /\ made THEN 1 ELSE 0

\* The calls of StartNewConnection() made by autoConnect() when IsConnected()
\* returned pre before and returns post after WiFiManager::autoConnect():
\* "bool connected = IsConnected(); if (connected) { StartNewConnection(); }"
AutoConnectStarts(pre, post) == IF post THEN 1 ELSE 0

\* The effect of starts calls of StartNewConnection() made by operation op.
StartNewConnectionCalls(starts, op) ==
    IF starts > 0
    THEN /\ sntpStarted' = TRUE
         /\ GetUtcTimeTBody(FALSE, op)
    ELSE /\ sLast' = [SNoOp EXCEPT !.op = op, !.preUsing = m_UsingNetworkTime]
         /\ UNCHANGED <<sntpStarted, sysOfs, m_LastUpdateMs, m_UsingNetworkTime>>

\* WiFiTimeManager::process() of src/WiFiTimeManager.cpp: made is what
\* WiFiManager::process() returns when it is called.
SntpProcess(made) ==
    /\ connected' = (connected \/ made)
    /\ cLast' = [op |-> "process", preConnected |-> connected, made |-> made,
                 starts |-> ProcessStarts(connected, made)]
    /\ StartNewConnectionCalls(ProcessStarts(connected, made), "process")
    /\ UNCHANGED <<millis, upSec, upFrac, ticks, rtcOfs, m_MinNtpRateMs,
                   m_pUtcGetCallback, m_pUtcSetCallback, nvsVars, appVars,
                   m_MinNtpRateSec, lastMs, lastMsInit, hadSync, pc, call, uLast, sent,
                   inflight, rxq, race, m_Timezone, m_pLclTimeChangeRule, oLast,
                   setterCalls>>

\* WiFiTimeManager::autoConnect(), with or without arguments: ok tells whether
\* WiFiManager::autoConnect() leaves the network connected.
SntpAutoConnect(ok) ==
    /\ connected' = ok
    /\ cLast' = [op |-> "autoConnect", preConnected |-> connected, made |-> ok,
                 starts |-> AutoConnectStarts(connected, ok)]
    /\ StartNewConnectionCalls(AutoConnectStarts(connected, ok), "autoConnect")
    /\ UNCHANGED <<millis, upSec, upFrac, ticks, rtcOfs, m_MinNtpRateMs,
                   m_pUtcGetCallback, m_pUtcSetCallback, nvsVars, appVars,
                   m_MinNtpRateSec, lastMs, lastMsInit, hadSync, pc, call, uLast, sent,
                   inflight, rxq, race, m_Timezone, m_pLclTimeChangeRule, oLast,
                   setterCalls>>

\* The largest number of clock advances in a run of SpecConn.
MaxConnTicks == 2

InitConn ==
    /\ m_Params = DefaultParams
    /\ nvsBlob = NoBlob
    /\ nvsOther = FALSE
    /\ wifiCreds = FALSE
    /\ last = NoOp
    /\ prev = NoOp
    /\ BootClock
    /\ SntpConstructed
    /\ UdpConstructed
    /\ AppConstructed

NextConn ==
    \/ \E made \in BOOLEAN : SntpProcess(made)
    \/ \E ok \in BOOLEAN : SntpAutoConnect(ok)
    \/ UtcSetCallback
    \/ \E func \in BOOLEAN : SetUtcGetCallback(func)
    \/ \E d \in TickSteps : ticks < MaxConnTicks /\ TickSntp(d)

SpecConn == InitConn /\ [][NextConn]_vars

\* C28: StartNewConnection() runs only on a transition from WiFi not
\* connected to WiFi connected: exactly once per transition detected by
\* process(), and never from process() or autoConnect() when the connection
\* was already established before the call.
C28_Original ==
    cLast.op \in {"process", "autoConnect"}
        => /\ cLast.starts > 0 => (~cLast.preConnected /\ connected)
           /\ (cLast.op = "process" /\ ~cLast.preConnected /\ cLast.made)
                  => cLast.starts = 1
           /\ cLast.preConnected => cLast.starts = 0

\* What holds of the two functions: process() starts a new connection exactly
\* when it was not connected and WiFiManager::process() reports a connection,
\* and autoConnect() exactly when the network is connected after it.
StartsPerCall ==
    /\ cLast.op = "process"
           => cLast.starts = (IF ~cLast.preConnected /\ cLast.made THEN 1 ELSE 0)
    /\ cLast.op = "autoConnect" => cLast.starts = (IF connected THEN 1 ELSE 0)

-----------------------------------------------------------------------------
(***************************************************************************)
(* GetUtcTimeT() on the application task against UtcSetCallback() on the   *)
(* SNTP task (SpecRace).  Neither function takes a lock, so each access to *)
(* a member or to the system clock is a step of its own and the steps of   *)
(* the two tasks interleave freely.  race.gpc is where the application     *)
(* task is inside GetUtcTimeT(), race.spc where the SNTP task is inside a  *)
(* time sync; the locals of GetUtcTimeT() are fields of race.              *)
(***************************************************************************)
\* The positions inside a call.
GetUtcSteps == {"test", "settime", "stamp", "flag"}

SyncSteps == {"flag", "usercb", "stamp"}

\* What the steps of the two tasks leave alone.
notRaceVars == <<millis, upSec, upFrac, ticks, m_MinNtpRateMs, m_pUtcGetCallback,
                 m_pUtcSetCallback, sntpStarted, sLast, nvsVars, udpVars, appVars, cLast,
                 m_Timezone, m_pLclTimeChangeRule, oLast, setterCalls>>

\* "uint32_t millisNow = millis();
\*  bool updateTimedOut = (millisNow - m_LastUpdateMs) >= 4 * m_MinNtpRateMs;"
GetUtcEnter(force) ==
    /\ race.gpc \in {"idle", "done"}
    /\ race' = [race EXCEPT !.gpc = "test", !.force = force, !.millisNow = millis,
                            !.updateTimedOut =
                                UpdateTimedOut(millis, m_LastUpdateMs, m_MinNtpRateMs),
                            !.overlap = (race.spc \in SyncSteps)]
    /\ UNCHANGED <<sysOfs, rtcOfs, m_LastUpdateMs, m_UsingNetworkTime, notRaceVars>>

\* "if (m_pUtcGetCallback && (force || updateTimedOut))
\*      timeNow = m_pUtcGetCallback();  else  timeNow = time(&timeNow);"
GetUtcTest ==
    /\ race.gpc = "test"
    /\ race' = IF m_pUtcGetCallback /\ (race.force \/ race.updateTimedOut)
               THEN [race EXCEPT !.gpc = "settime", !.timeNow = RtcNow]
               ELSE [race EXCEPT !.gpc = "flag", !.timeNow = SysNow]
    /\ UNCHANGED <<sysOfs, rtcOfs, m_LastUpdateMs, m_UsingNetworkTime, notRaceVars>>

\* "timeval tv = { .tv_sec = timeNow }; settimeofday(&tv, NULL);"
GetUtcSetTime ==
    /\ race.gpc = "settime"
    /\ sysOfs' = race.timeNow - upSec
    /\ race' = [race EXCEPT !.gpc = "stamp"]
    /\ UNCHANGED <<rtcOfs, m_LastUpdateMs, m_UsingNetworkTime, notRaceVars>>

\* "m_LastUpdateMs = millisNow;"
GetUtcStamp ==
    /\ race.gpc = "stamp"
    /\ m_LastUpdateMs' = race.millisNow
    /\ race' = [race EXCEPT !.gpc = "flag"]
    /\ UNCHANGED <<sysOfs, rtcOfs, m_UsingNetworkTime, notRaceVars>>

\* "if (updateTimedOut) { m_UsingNetworkTime = false; }  return timeNow;"
GetUtcFlag ==
    /\ race.gpc = "flag"
    /\ m_UsingNetworkTime' = IF race.updateTimedOut THEN FALSE ELSE m_UsingNetworkTime
    /\ race' = [race EXCEPT !.gpc = "done"]
    /\ UNCHANGED <<sysOfs, rtcOfs, m_LastUpdateMs, notRaceVars>>

\* The SNTP task has a reply: it sets the system clock to the server's time
\* and calls the notification callback, UtcSetCallback(pTv).
SyncBegin ==
    /\ sntpStarted
    /\ race.spc \in {"idle", "done"}
    /\ sysOfs' = NtpNow - upSec
    /\ race' = [race EXCEPT !.spc = "flag", !.syncSec = NtpNow - upSec,
                            !.overlap = (race.gpc \in GetUtcSteps)]
    /\ UNCHANGED <<rtcOfs, m_LastUpdateMs, m_UsingNetworkTime, notRaceVars>>

\* "pWtm->m_UsingNetworkTime = true;"
SyncFlag ==
    /\ race.spc = "flag"
    /\ m_UsingNetworkTime' = TRUE
    /\ race' = [race EXCEPT !.spc = "usercb"]
    /\ UNCHANGED <<sysOfs, rtcOfs, m_LastUpdateMs, notRaceVars>>

\* "if (pWtm->m_pUtcSetCallback) { pWtm->m_pUtcSetCallback(pTv->tv_sec); }"
SyncUserCallback ==
    /\ race.spc = "usercb"
    /\ rtcOfs' = IF m_pUtcSetCallback THEN race.syncSec ELSE rtcOfs
    /\ race' = [race EXCEPT !.spc = "stamp"]
    /\ UNCHANGED <<sysOfs, m_LastUpdateMs, m_UsingNetworkTime, notRaceVars>>

\* "pWtm->m_LastUpdateMs = millis();"
SyncStamp ==
    /\ race.spc = "stamp"
    /\ m_LastUpdateMs' = millis
    /\ race' = [race EXCEPT !.spc = "done", !.syncMs = millis]
    /\ UNCHANGED <<sysOfs, rtcOfs, m_UsingNetworkTime, notRaceVars>>

\* Clock advances of SpecRace, in milliseconds: one second, and four times
\* the default minimum interval.
RaceTickSteps == {1000, 14400000}

\* The largest number of clock advances in a run of SpecRace.
MaxRaceTicks == 1

\* The state after autoConnect() has connected at boot: SNTP runs and
\* UtcSetCallback is registered.
InitRace ==
    /\ m_Params = DefaultParams
    /\ nvsBlob = NoBlob
    /\ nvsOther = FALSE
    /\ wifiCreds = FALSE
    /\ last = NoOp
    /\ prev = NoOp
    /\ BootClock
    /\ m_LastUpdateMs = U32(0)
    /\ m_MinNtpRateMs = U32(60 * 60 * 1000)
    /\ m_UsingNetworkTime = FALSE
    /\ m_pUtcGetCallback = FALSE
    /\ m_pUtcSetCallback = FALSE
    /\ sntpStarted = TRUE
    /\ sLast = SNoOp
    /\ UdpConstructed
    /\ AppConstructed

NextRace ==
    \/ \E force \in BOOLEAN : GetUtcEnter(force)
    \/ GetUtcTest
    \/ GetUtcSetTime
    \/ GetUtcStamp
    \/ GetUtcFlag
    \/ SyncBegin
    \/ SyncFlag
    \/ SyncUserCallback
    \/ SyncStamp
    \/ \E func \in BOOLEAN : race.gpc \notin GetUtcSteps /\ SetUtcGetCallback(func)
    \/ \E func \in BOOLEAN : race.gpc \notin GetUtcSteps /\ SetUtcSetCallback(func)
    \/ \E d \in RaceTickSteps : ticks < MaxRaceTicks /\ TickSntp(d)

SpecRace == InitRace /\ [][NextRace]_vars

\* C27: when UtcSetCallback (run by the SNTP task on a time sync) interleaves
\* at any point with a GetUtcTimeT() call on the application task, then once
\* both have completed UsingNetworkTime() is true, the system clock holds the
\* NTP time just received, and m_LastUpdateMs is the time of that sync.
C27_Original ==
    (race.gpc = "done" /\ race.spc = "done" /\ race.overlap)
        => /\ m_UsingNetworkTime
           /\ sysOfs = race.syncSec
           /\ m_LastUpdateMs = race.syncMs

-----------------------------------------------------------------------------
(***************************************************************************)
(* The getters of the SNTP implementation (SpecGetters).  The field        *)
(* getters of the header return a member of m_Params and change no state,  *)
(* so they are stuttering steps; GetLocalTimezoneString() calls            *)
(* GetLocalTime(), which calls GetUtcTimeT().  The specification starts    *)
(* from the state that Init() leaves and lets the network connect, SNTP    *)
(* synchronise, the user set a get-callback, and time pass.                *)
(***************************************************************************)
\* The largest number of clock advances in a run of SpecGetters.
MaxGetterTicks == 2

NextGetters ==
    \/ GetLocalTimezoneString
    \/ GetLocalTime
    \/ StartNewConnection
    \/ UtcSetCallback
    \/ \E func \in BOOLEAN : SetUtcGetCallback(func)
    \/ \E d \in HookTickSteps : ticks < MaxGetterTicks /\ TickSntp(d)

SpecGetters == InitTz /\ [][NextGetters]_vars

\* C30: GetLocalTimezoneString() and the field getters are side-effect-free:
\* a call never changes the last-update timestamp, the using-network-time
\* flag or the system clock; only GetUtcTime()/GetUtcTimeT() may change these.
C30_Original ==
    [][GetLocalTimezoneString
          => UNCHANGED <<m_LastUpdateMs, m_UsingNetworkTime, sysOfs>>]_vars

-----------------------------------------------------------------------------
(***************************************************************************)
(* The Timezone library implementation (src/README.md, SpecTzlib): local   *)
(* time comes from a Timezone object, m_Timezone, that holds a copy of the *)
(* two rules, and m_pLclTimeChangeRule points to the rule that the last    *)
(* conversion used.  The system clock is the Time library's now(), a       *)
(* uint32_t; WiFi is not connected, so GetUtcTime() returns what the       *)
(* default get-callback reads from that clock.                             *)
(***************************************************************************)
\* "const time_t START_2022_UNIX_TIME = 1640995200;"
START_2022_UNIX_TIME == 1640995200

\* The years in which the clock of SpecTzlib lies.
TzlibYears == 2022..2024

\* year(t) of the Time library.
year(t) ==
    CHOOSE y \in TzlibYears : /\ DaysBeforeYear(y) * SECSPERDAY <= t
                              /\ t < DaysBeforeYear(y + 1) * SECSPERDAY

\* Timezone::toTime_t(r, yr): the local instant that rule r names in year yr.
\* r.week is 0 for Last and 1..4 for First..Fourth, r.dow is 1 for Sunday to
\* 7 for Saturday; a Last rule is the first such weekday of the next month
\* taken back by a week.
toTime_t(r, yr) ==
    LET isLast == r.week = 0
        m      == IF isLast THEN (IF r.month = 12 THEN 1 ELSE r.month + 1) ELSE r.month
        y      == IF isLast /\ r.month = 12 THEN yr + 1 ELSE yr
        w      == IF isLast THEN 1 ELSE r.week
        days   == DaysBeforeYear(y) + DaysBeforeMonth(y, m)
        wday   == ((days + EPOCH_WDAY) % DAYSPERWEEK) + 1
        first  == days + ((r.dow - wday + 7) % 7) + (w - 1) * 7
    IN  (IF isLast THEN first - 7 ELSE first) * SECSPERDAY + r.hour * SECSPERHOUR

\* Timezone::calcTimeChanges(yr): the UTC instants of the two changes.
calcTimeChanges(tz, yr) ==
    [m_dstUTC |-> toTime_t(tz.m_dst, yr) - tz.m_std.offset * SECSPERMIN,
     m_stdUTC |-> toTime_t(tz.m_std, yr) - tz.m_dst.offset * SECSPERMIN]

\* Timezone::utcIsDST(utc)
utcIsDST(tz, utc) ==
    LET c == calcTimeChanges(tz, year(utc))
    IN  IF c.m_stdUTC = c.m_dstUTC THEN FALSE
        ELSE IF c.m_stdUTC > c.m_dstUTC THEN utc >= c.m_dstUTC /\ utc < c.m_stdUTC
        ELSE ~(utc >= c.m_stdUTC /\ utc < c.m_dstUTC)

\* Timezone::toLocal(utc, &p_tcr): the local time and the rule p_tcr is left
\* pointing to.
toLocal(tz, utc) ==
    IF utcIsDST(tz, utc)
    THEN [tcr |-> "m_dst", local |-> utc + tz.m_dst.offset * SECSPERMIN]
    ELSE [tcr |-> "m_std", local |-> utc + tz.m_std.offset * SECSPERMIN]

\* "p->abbrev" for a pointer into the Timezone object.
RuleOf(tz, ptr) == IF ptr = "m_dst" THEN tz.m_dst ELSE tz.m_std

\* What the operations of this implementation leave alone.
tzlibFrame == <<nvsOther, wifiCreds, last, prev, millis, upSec, upFrac, ticks, rtcOfs,
                sntpVars, m_MinNtpRateSec, hadSync, connected, pc, call, uLast, sent,
                inflight, rxq, sntpInited, m_pApName, m_pApPassword, tzEnv,
                m_pSaveParamsCallback, pLast, tmLast, m_pUpdateWebPageCallback, hLast,
                cLast, race, setterCalls>>

\* Restore() of this implementation: the stored blob is taken when it has
\* the size of TimeParameters and this implementation's version.
TzlibRestoreAccepts(blob) ==
    IF GetBytesLen(blob, SizeofTimeParameters) # SizeofTimeParameters THEN FALSE
    ELSE blob.data.m_Version = TZLIB_TP_VERSION

\* The JSON document of this implementation's UpdateWebPage().
TzlibWebPageJson(p) == [json |-> WebPageJson(p), NTP_PORT |-> p.m_NtpPort]

\* Init() makes no call of UpdateTimezoneRules(): m_Timezone keeps the rules
\* it has.
RulesAfterInit(tz, params) == tz

\* WiFiTimeManager::Init(pApName, setupButton) with a valid name: Restore(),
\* or Save() of the parameters in force when nothing can be restored,
\* UpdateWebPage(), and "setTime(START_2022_UNIX_TIME);".
TzlibInit(putRet) ==
    LET restored  == TzlibRestoreAccepts(nvsBlob)
        params    == IF restored THEN nvsBlob.data ELSE m_Params
        needWrite == ~restored /\ SaveNeedsWrite(nvsBlob, m_Params)
        saved     == IF needWrite THEN putRet = SizeofTimeParameters ELSE TRUE
        proceeds  == restored \/ saved
    IN  /\ pc = "idle"
        /\ wifiMode' = "WIFI_STA"
        /\ m_Params' = params
        /\ nvsBlob' = IF needWrite /\ putRet = SizeofTimeParameters
                      THEN Blob(SizeofTimeParameters, m_Params) ELSE nvsBlob
        /\ webPage' = IF proceeds THEN TzlibWebPageJson(params) ELSE webPage
        /\ sysOfs' = IF proceeds THEN U32Sub(U32(START_2022_UNIX_TIME), U32(upSec))
                     ELSE sysOfs
        /\ m_Timezone' = RulesAfterInit(m_Timezone, params)
        /\ iLast' = [calls |-> 1 - iLast.calls, name |-> "AP", ret |-> proceeds,
                     restoreCalls |-> 1, restoreRet |-> restored,
                     saveCalls |-> IF restored THEN 0 ELSE 1,
                     saveRet |-> ~restored /\ saved]
        /\ oLast' = [NoTzlibOp EXCEPT !.op = "Init", !.restored = restored]
        /\ UNCHANGED <<lastMs, lastMsInit, m_pLclTimeChangeRule, tzlibFrame>>

\* GetUtcTime() while not connected: the static lastMs is initialised on the
\* first call, and "return m_pUtcGetCallback();" reads now().
\* WiFiTimeManager::GetLocalTime():
\* "time_t utc = GetUtcTime(); return m_Timezone.toLocal(utc, &m_pLclTimeChangeRule);"
TzlibGetLocalTime ==
    LET utc == U32ToNat(now)
        cnv == toLocal(m_Timezone, utc)
    IN  /\ pc = "idle"
        /\ ~connected
        /\ iLast.ret
        /\ lastMs' = StaticLastMs(millis)
        /\ lastMsInit' = TRUE
        /\ m_pLclTimeChangeRule' = cnv.tcr
        /\ oLast' = [NoTzlibOp EXCEPT !.op = "GetLocalTime", !.utc = utc,
                                      !.local = cnv.local]
        /\ UNCHANGED <<m_Params, nvsBlob, wifiMode, webPage, sysOfs, m_Timezone, iLast,
                       tzlibFrame>>

\* "if (m_pLclTimeChangeRule == NULL) { GetLocalTime(); }": the pointer that
\* GetLocalTimezoneString() reads the abbreviation from, where fresh is what a
\* GetLocalTime() call would leave.
PointerUsed(ptr, fresh) == IF ptr = "NULL" THEN fresh ELSE ptr

\* WiFiTimeManager::GetLocalTimezoneString(): it returns
\* "m_pLclTimeChangeRule->abbrev".
TzlibGetLocalTimezoneString ==
    LET utc   == U32ToNat(now)
        fresh == toLocal(m_Timezone, utc).tcr
        ptr   == PointerUsed(m_pLclTimeChangeRule, fresh)
        calls == m_pLclTimeChangeRule = "NULL"
    IN  /\ pc = "idle"
        /\ ~connected
        /\ iLast.ret
        /\ lastMs' = IF calls THEN StaticLastMs(millis) ELSE lastMs
        /\ lastMsInit' = (calls \/ lastMsInit)
        /\ m_pLclTimeChangeRule' = ptr
        /\ oLast' = [NoTzlibOp EXCEPT !.op = "GetLocalTimezoneString", !.utc = utc,
                                      !.ret = RuleOf(m_Timezone, ptr).abbrev]
        /\ UNCHANGED <<m_Params, nvsBlob, wifiMode, webPage, sysOfs, m_Timezone, iLast,
                       tzlibFrame>>

\* setTime(t) of the Time library: the clock is changed.
setTime(t) ==
    /\ pc = "idle"
    /\ iLast.ret
    /\ sysOfs' = U32Sub(U32(t), U32(upSec))
    /\ oLast' = [NoTzlibOp EXCEPT !.op = "setTime"]
    /\ UNCHANGED <<m_Params, nvsBlob, wifiMode, webPage, lastMs, lastMsInit, m_Timezone,
                   m_pLclTimeChangeRule, iLast, tzlibFrame>>

\* SetUseDst(v) followed by UpdateTimezoneRules(): the rules are changed.
TzlibSetUseDst(v) ==
    /\ pc = "idle"
    /\ iLast.ret
    /\ m_Params' = [m_Params EXCEPT !.m_UseDst = v]
    /\ m_Timezone' = TimezoneRulesFor(m_Params')
    /\ oLast' = [NoTzlibOp EXCEPT !.op = "UpdateTimezoneRules"]
    /\ UNCHANGED <<nvsBlob, wifiMode, webPage, sysOfs, lastMs, lastMsInit,
                   m_pLclTimeChangeRule, iLast, tzlibFrame>>

\* Time passes between two calls.
TzlibTickMs == 4000

TzlibTick ==
    /\ iLast.ret
    /\ TickUdp(TzlibTickMs)

\* A configuration saved by an earlier run: Greenwich time with British
\* summer time from the last Sunday of March, 1 h, to the last Sunday of
\* October, 2 h.
LondonParams ==
    [TzlibDefaultParams EXCEPT
        !.m_TzOfst = 0,
        !.m_DstStartRule = [abbrev |-> "BST", week |-> 0, dow |-> 1, month |-> 3,
                            hour |-> 1, offset |-> 60],
        !.m_DstEndRule = [abbrev |-> "GMT", week |-> 0, dow |-> 1, month |-> 10,
                          hour |-> 2, offset |-> 0]]

\* The configurations that NVS may hold at boot: London's, the defaults with
\* daylight time turned off, and the defaults.
SavedConfigs ==
    {LondonParams, [TzlibDefaultParams EXCEPT !.m_UseDst = FALSE], TzlibDefaultParams}

\* Instants offered to setTime(): two seconds before each change of the
\* default rules and of London's in 2022, and one in summer.
TzlibInstants ==
    { Epoch(2022, 3, 13, 6, 59, 58), Epoch(2022, 11, 6, 5, 59, 58),
      Epoch(2022, 3, 27, 0, 59, 58), Epoch(2022, 10, 30, 0, 59, 58),
      Epoch(2022, 7, 15, 12, 0, 0) }

\* The constructed object, with or without a configuration in NVS.
InitTzlib ==
    /\ m_Params = TzlibDefaultParams
    /\ nvsBlob \in {NoBlob} \cup {Blob(SizeofTimeParameters, c) : c \in SavedConfigs}
    /\ nvsOther = FALSE
    /\ wifiCreds = FALSE
    /\ last = NoOp
    /\ prev = NoOp
    /\ UdpBootClock
    /\ SntpConstructed
    /\ UdpConstructed
    /\ AppConstructed

NextTzlib ==
    \/ \E putRet \in PutBytesReturns : TzlibInit(putRet)
    \/ TzlibGetLocalTime
    \/ TzlibGetLocalTimezoneString
    \/ \E t \in TzlibInstants : setTime(t)
    \/ \E v \in BOOLEAN : TzlibSetUseDst(v)
    \/ TzlibTick

SpecTzlib == InitTzlib /\ [][NextTzlib]_vars

\* C25: in the Timezone library implementation, GetLocalTimezoneString()
\* returns the abbreviation of the rule that is active at the time of the
\* call, for every sequence of preceding GetLocalTime() calls, clock changes,
\* rule changes and DST transitions.
C25_Original ==
    oLast.op = "GetLocalTimezoneString"
        => oLast.ret = RuleOf(m_Timezone, toLocal(m_Timezone, oLast.utc).tcr).abbrev

\* C29: in the Timezone library implementation, after Init() successfully
\* restores a saved configuration, GetLocalTime() converts with the rules of
\* the restored configuration (its DST-enabled flag and start/end rules), not
\* with the compiled-in defaults the rule engine was constructed with.
C29_Original ==
    (/\ oLast.op = "GetLocalTime"
     /\ iLast.restoreRet
     /\ m_Params = nvsBlob.data)
        => oLast.local = toLocal(TimezoneRulesFor(m_Params), oLast.utc).local

-----------------------------------------------------------------------------
(***************************************************************************)
(* Save() followed by Restore() (SpecNvs).                                 *)
(***************************************************************************)
\* C31: in every reachable state the in-memory m_Version equals TP_VERSION,
\* so every blob written by a successful Save() passes the version gate:
\* after Save() has returned true the store holds a blob that Restore()
\* accepts, on this or on a freshly constructed instance, and that equals the
\* parameters saved; a Restore() that follows returns true and leaves the
\* parameters as they were saved.
C31_SaveThenRestore ==
    /\ m_Params.m_Version = TP_VERSION
    /\ (last.op = "Save" /\ last.ret)
           => (RestoreAccepts(nvsBlob) /\ nvsBlob.data = m_Params)
    /\ (last.op = "Restore" /\ prev.op = "Save" /\ prev.ret)
           => (last.ret /\ m_Params = last.pre /\ m_Params = nvsBlob.data)

\* A Save() that wrote changed parameters over a blob of an older version
\* or size has been followed by a Restore().
C31_Witness ==
    /\ last.op = "Restore"
    /\ last.ret
    /\ prev.op = "Save"
    /\ prev.wrote
    /\ prev.ret
    /\ prev.preBlob # NoBlob
    /\ m_Params # DefaultParams

-----------------------------------------------------------------------------
-----------------------------------------------------------------------------
(***************************************************************************)
(* When GetUtcTimeT() turns to the user's get-callback (SpecSntp).         *)
(***************************************************************************)
\* C33: GetUtcTimeT() invokes the user get-callback only when force is true
\* or at least 4 x the minimum NTP interval has elapsed since the last
\* update; each such invocation sets the system clock to the callback's value
\* and restarts the interval, so a non-forced call made before 4 x the
\* interval has elapsed returns the system clock without invoking the
\* callback.
C33_Original ==
    sLast.op = "GetUtcTimeT"
        => /\ sLast.cbInvoked
                  => (sLast.force \/ AtLeastFourIntervals(sLast.elapsed, sLast.rate))
           /\ sLast.cbInvoked => (SysNow = sLast.ret /\ m_LastUpdateMs = millis)
           /\ ~sLast.cbInvoked => sLast.ret = SysNow

-----------------------------------------------------------------------------
(***************************************************************************)
(* The portal, the setters of the rule fields, Save() and Restore(),       *)
(* starting from the defaults and an empty store.                          *)
(***************************************************************************)

\* A form that asks for a DST offset of 45 minutes: Kathmandu-like base
\* offset, with every selectable field inside its range.
QuarterForm ==
    [timezoneOffset |-> 345, dstOffset |-> 45, useDstField |-> "true",
     dstEndString |-> "NPT", dstStartString |-> "NPS",
     weekNumber1 |-> 3, dayOfWeek1 |-> 1, month1 |-> 4, hour1 |-> 3,
     weekNumber2 |-> 4, dayOfWeek2 |-> 2, month2 |-> 9, hour2 |-> 4,
     ntpServerAddr |-> "time.nist.gov"]

PortalForms == {OddForm, QuarterForm}

\* The number of rule setter calls in one run.
MaxSetterCalls == 1

\* What every rule setter does around its assignment to m_Params.
SetterCall(op, v, params) ==
    /\ setterCalls < MaxSetterCalls
    /\ setterCalls' = setterCalls + 1
    /\ m_Params' = params
    /\ last' = [NoOp EXCEPT !.op = op, !.ret = TRUE, !.arg = v]
    /\ UNCHANGED <<prev, nvsBlob, nvsOther, wifiCreds, clockVars, sntpVars, udpVars, appVars,
                   cLast, race, m_Timezone, m_pLclTimeChangeRule, oLast>>

SetDstStartWk(v) ==
    SetterCall("SetDstStartWk", v,
               [m_Params EXCEPT !.m_DstStartRule.week = Constrain(v, WK_MIN, WK_MAX)])

SetDstStartDow(v) ==
    SetterCall("SetDstStartDow", v,
               [m_Params EXCEPT !.m_DstStartRule.dow = Constrain(v, DOW_MIN, DOW_MAX)])

SetDstStartMonth(v) ==
    SetterCall("SetDstStartMonth", v,
               [m_Params EXCEPT !.m_DstStartRule.month = Constrain(v, MONTH_MIN, MONTH_MAX)])

SetDstStartHour(v) ==
    SetterCall("SetDstStartHour", v,
               [m_Params EXCEPT !.m_DstStartRule.hour = Constrain(v, HOUR_MIN, HOUR_MAX)])

SetDstEndWk(v) ==
    SetterCall("SetDstEndWk", v,
               [m_Params EXCEPT !.m_DstEndRule.week = Constrain(v, WK_MIN, WK_MAX)])

SetDstEndDow(v) ==
    SetterCall("SetDstEndDow", v,
               [m_Params EXCEPT !.m_DstEndRule.dow = Constrain(v, DOW_MIN, DOW_MAX)])

SetDstEndMonth(v) ==
    SetterCall("SetDstEndMonth", v,
               [m_Params EXCEPT !.m_DstEndRule.month = Constrain(v, MONTH_MIN, MONTH_MAX)])

SetDstEndHour(v) ==
    SetterCall("SetDstEndHour", v,
               [m_Params EXCEPT !.m_DstEndRule.hour = Constrain(v, HOUR_MIN, HOUR_MAX)])

\* The arguments the setters are called with: negative (a large number once
\* converted to uint32_t), below the range of week and month, above every
\* range.
RuleInputs == {-1, 0, 40}

InitPortal ==
    /\ m_Params = DefaultParams
    /\ nvsBlob = NoBlob
    /\ nvsOther = FALSE
    /\ wifiCreds = FALSE
    /\ last = NoOp
    /\ prev = NoOp
    /\ BootClock
    /\ SntpConstructed
    /\ UdpConstructed
    /\ AppConstructed

\* Portal submissions, Save() and Restore().
NextPortal ==
    \/ \E f \in PortalForms, putRet \in PutBytesReturns : SaveParamCallback(f, putRet)
    \/ \E func \in BOOLEAN : setSaveParamsCallback(func)
    \/ \E putRet \in PutBytesReturns : Save(putRet)
    \/ Restore

SpecPortal == InitPortal /\ [][NextPortal]_vars

\* The setters, submissions of the form with out-of-range values, Save() and
\* Restore().
NextSetters ==
    \/ \E v \in RuleInputs : SetDstStartWk(v)
    \/ \E v \in RuleInputs : SetDstStartDow(v)
    \/ \E v \in RuleInputs : SetDstStartMonth(v)
    \/ \E v \in RuleInputs : SetDstStartHour(v)
    \/ \E v \in RuleInputs : SetDstEndWk(v)
    \/ \E v \in RuleInputs : SetDstEndDow(v)
    \/ \E v \in RuleInputs : SetDstEndMonth(v)
    \/ \E v \in RuleInputs : SetDstEndHour(v)
    \/ SetDstOfst(-5)
    \/ \E putRet \in PutBytesReturns : SaveParamCallback(OddForm, putRet)
    \/ \E putRet \in PutBytesReturns : Save(putRet)
    \/ Restore

SpecSetters == InitPortal /\ [][NextSetters]_vars

\* A rule whose selectable fields all lie in their enumerated domains.
RuleInRange(r) ==
    /\ r.week \in WK_MIN..WK_MAX
    /\ r.dow \in DOW_MIN..DOW_MAX
    /\ r.month \in MONTH_MIN..MONTH_MAX
    /\ r.hour \in HOUR_MIN..HOUR_MAX

(***************************************************************************)
(* C34: after every SaveParamCallback(), whatever the form holds, the DST  *)
(* start rule's offset is GetTzOfst() + GetDstOfst() and the end rule's    *)
(* offset is GetTzOfst().                                                  *)
(***************************************************************************)
C34_Original ==
    last.op = "SaveParamCallback"
        => /\ m_Params.m_DstStartRule.offset = m_Params.m_TzOfst + m_Params.m_DstOfst
           /\ m_Params.m_DstEndRule.offset = m_Params.m_TzOfst

\* The same for the forms whose DST offset is one of the two selectable
\* values.
C34_SelectableOffsets ==
    (last.op = "SaveParamCallback"
     /\ m_Params.m_DstStartRule.offset - m_Params.m_TzOfst \in {OFFSET_MIN, OFFSET_MAX})
        => /\ m_Params.m_DstStartRule.offset = m_Params.m_TzOfst + m_Params.m_DstOfst
           /\ m_Params.m_DstEndRule.offset = m_Params.m_TzOfst

(***************************************************************************)
(* C35: from the defaults and an empty store, after any sequence of setter *)
(* calls, portal submissions, Save() and Restore(), both rules have their  *)
(* week in [1,5], day of week in [0,6], month in [1,12] and hour in        *)
(* [0,23], and the DST delta is 30 or 60.                                  *)
(***************************************************************************)
C35_FieldsInRange ==
    /\ RuleInRange(m_Params.m_DstStartRule)
    /\ RuleInRange(m_Params.m_DstEndRule)
    /\ m_Params.m_DstOfst \in {OFFSET_MIN, OFFSET_MAX}

\* Restore() has brought back what the portal saved from out-of-range form
\* values, after a setter called with 40 had moved the end month to its
\* maximum.
C35_Witness ==
    /\ last.op = "Restore"
    /\ last.ret
    /\ setterCalls > 0
    /\ last.pre.m_DstEndRule.month = MONTH_MAX
    /\ m_Params.m_DstEndRule.month = MONTH_MIN
    /\ m_Params.m_DstStartRule.hour = HOUR_MAX
    /\ m_Params.m_DstEndRule.week = WK_MAX

(***************************************************************************)
(* C36: when Save() fails inside SaveParamCallback(), nothing else is      *)
(* skipped or rolled back: m_Params keeps the submitted values, the        *)
(* timezone rules and the web page are derived from them, and the user's   *)
(* save-params callback, if one is set, is still invoked.                  *)
(***************************************************************************)
C36_FailedSaveSkipsNothing ==
    (last.op = "SaveParamCallback" /\ last.wrote /\ last.putRet # SizeofTimeParameters)
        => /\ pLast.steps = <<"SetFields", "Save", "UpdateTimezoneRules", "UpdateWebPage">>
                            \o (IF m_pSaveParamsCallback THEN <<"UserCallback">> ELSE <<>>)
           /\ nvsBlob = last.preBlob
           /\ \E f \in PortalForms : m_Params = SetFields(last.pre, f)
           /\ tzEnv = GetTimezoneString(m_Params)
           /\ webPage = WebPageJson(m_Params)
           /\ m_pSaveParamsCallback => pLast.seenParams = m_Params

\* A submission that changed the parameters, whose Save() called putBytes()
\* and failed, with a user callback set.
C36_Witness ==
    /\ last.op = "SaveParamCallback"
    /\ last.wrote
    /\ last.putRet = 0
    /\ nvsBlob = last.preBlob
    /\ m_pSaveParamsCallback
    /\ m_Params # last.pre
    /\ tzEnv # GetTimezoneString(last.pre)
    /\ pLast.seenParams = m_Params

(***************************************************************************)
(* C37: for every base offset and every DST offset (base + delta) within   *)
(* 14 hours of UTC, those of less than 60 minutes included, the            *)
(* hour:minute field that GetTimezoneString() writes decodes under the     *)
(* POSIX TZ convention (positive is west of UTC) to exactly the negated    *)
(* offset.                                                                 *)
(***************************************************************************)
C37_Original ==
    tzEnv = GetTimezoneString(m_Params)
        => /\ TzOffsetSec(tzEnv.std) = 0 - m_Params.m_TzOfst * SECSPERMIN
           /\ m_Params.m_UseDst
                => TzOffsetSec(tzEnv.dst)
                       = 0 - (m_Params.m_TzOfst + m_Params.m_DstOfst) * SECSPERMIN

\* The same for the offsets that "%+01d:%01d" writes with their own sign.
C37_WrittenWithSign ==
    tzEnv = GetTimezoneString(m_Params)
        => /\ WrittenWithSign(m_Params.m_TzOfst)
                => TzOffsetSec(tzEnv.std) = 0 - m_Params.m_TzOfst * SECSPERMIN
           /\ (m_Params.m_UseDst /\ WrittenWithSign(m_Params.m_TzOfst + m_Params.m_DstOfst))
                => TzOffsetSec(tzEnv.dst)
                       = 0 - (m_Params.m_TzOfst + m_Params.m_DstOfst) * SECSPERMIN

(***************************************************************************)
(* C38: GetMinNtpRateSec() returns, in seconds, the minimum interval in    *)
(* force: n after SetMinNtpRateSec(n) with n >= 15, and 3600 before any    *)
(* such call.                                                              *)
(***************************************************************************)
C38_Original ==
    sLast.op = "GetMinNtpRateSec"
        => /\ U32Leq(U32(MIN_NTP_UPDATE_MS \div MS_PER_SEC), sLast.arg)
                => sLast.rate = sLast.arg
           /\ m_MinNtpRateMs = U32(60 * 60 * 1000) => sLast.rate = U32(3600)

\* What the getter does return: the stored number of milliseconds.
C38_ReturnsMilliseconds ==
    sLast.op = "GetMinNtpRateSec" => sLast.rate = m_MinNtpRateMs

=============================================================================
